---- MODULE Spec2Model ----
(***************************************************************************)
(* A model of the invoice field-resolution engine: the request classifier, *)
(* the tolerant JSON normaliser, the field filter, the field normaliser,   *)
(* the validator and the parse_invoice pipeline (src/core/parser.py,       *)
(* src/core/validator.py).                                                 *)
(*                                                                         *)
(* Text is modelled by TLA+ strings, on which TLC evaluates Len, \o, Head, *)
(* Tail and SubSeq, so substring search, splitting and the regular         *)
(* expression substitutions are computed character by character as the     *)
(* Python code computes them.  The back-quote of a markdown fence is       *)
(* written ~ because the TLA+ lexer does not accept it inside a string.    *)
(***************************************************************************)
EXTENDS Integers, Sequences, FiniteSets, TLC

VARIABLES
    pc,        \* control point of the operation under way
    request,   \* the user prompt, or the oracle's response
    data,      \* the mapping handed to the operation: a sequence of [k, v];
               \* for an oracle response, the mapping it was written from;
               \* for parse_invoice, the PDF
    result,    \* what the operation returned
    prior,     \* what the previous application or stage returned
    strings,   \* the working strings of parse_llm_response and parse_invoice
    calls      \* how often the JSON parser, the repair pass and the oracle ran

vars == <<pc, request, data, result, prior, strings, calls>>

---------------------------------------------------------------------------
(* Bounds of the model *)

MaxPhrases == 2
MaxFields == 2
MaxPieces == 2
MaxMembers == 2
MaxPages == 2

---------------------------------------------------------------------------
(* Python's str operations *)

Char(s, i) == SubSeq(s, i, i)

\* sub in s
Contains(s, sub) ==
    \E i \in 0..(Len(s) - Len(sub)) : SubSeq(s, i + 1, i + Len(sub)) = sub

ContainsAny(s, subs) == \E sub \in subs : Contains(s, sub)

UpperAlpha == "ABCDEFGHIJKLMNOPQRSTUVWXYZ"
LowerAlpha == "abcdefghijklmnopqrstuvwxyz"
Digits == "0123456789"

Chars(s) == {Char(s, i) : i \in 1..Len(s)}
UpperChars == Chars(UpperAlpha)
LowerChars == Chars(LowerAlpha)
DigitChars == Chars(Digits)
SpaceChars == {" ", "\n", "\t"}
\* \w of the re module
WordChars == UpperChars \cup LowerChars \cup DigitChars \cup {"_"}

IsUpper(c) == c \in UpperChars
IsLower(c) == c \in LowerChars
IsDigit(c) == c \in DigitChars
IsAlpha(c) == c \in UpperChars \/ c \in LowerChars
IsSpace(c) == c \in SpaceChars
IsWordChar(c) == c \in WordChars

\* the lower-case letter of each upper-case letter
LowerOf == [c \in UpperChars |->
               Char(LowerAlpha, CHOOSE i \in 1..Len(UpperAlpha) : Char(UpperAlpha, i) = c)]

LowerChar(c) == IF c \in UpperChars THEN LowerOf[c] ELSE c

\* the two halves of a text: the character-wise operations below work on
\* the halves of their text
Left(s) == SubSeq(s, 1, Len(s) \div 2)
Right(s) == SubSeq(s, (Len(s) \div 2) + 1, Len(s))

StartsWith(s, prefix) == Len(s) >= Len(prefix) /\ SubSeq(s, 1, Len(prefix)) = prefix
From(s, i) == SubSeq(s, i, Len(s))

RECURSIVE Lower(_)
\* s.lower()
Lower(s) == IF Len(s) <= 1 THEN LowerChar(s) ELSE Lower(Left(s)) \o Lower(Right(s))

RECURSIVE LStrip(_)
LStrip(s) == IF s # "" /\ IsSpace(Head(s)) THEN LStrip(Tail(s)) ELSE s

RECURSIVE RStrip(_)
RStrip(s) ==
    IF s # "" /\ IsSpace(Char(s, Len(s)))
    THEN RStrip(SubSeq(s, 1, Len(s) - 1))
    ELSE s

\* s.strip()
Strip(s) == RStrip(LStrip(s))

\* the position after the first word of s, which starts with a word
WordEnd(s) ==
    LET spaces == {i \in 1..Len(s) : IsSpace(Char(s, i))}
    IN  IF spaces = {} THEN Len(s) + 1 ELSE CHOOSE i \in spaces : \A j \in spaces : i <= j

RECURSIVE SplitWords(_)
\* s.split(): the words between runs of whitespace
SplitWords(s) ==
    IF LStrip(s) = "" THEN <<>>
    ELSE <<SubSeq(LStrip(s), 1, WordEnd(LStrip(s)) - 1)>>
         \o SplitWords(From(LStrip(s), WordEnd(LStrip(s))))

RECURSIVE ReplaceChar(_, _, _)
\* s.replace(a, b) for a one-character a
ReplaceChar(s, a, b) ==
    IF Len(s) <= 1 THEN (IF s = a THEN b ELSE s)
    ELSE ReplaceChar(Left(s), a, b) \o ReplaceChar(Right(s), a, b)

\* s.find(sub) from 1-based position i; 0 when absent
Find(s, sub, i) ==
    LET found == {j \in i..(Len(s) - Len(sub) + 1) : SubSeq(s, j, j + Len(sub) - 1) = sub}
    IN  IF found = {} THEN 0 ELSE CHOOSE j \in found : \A later \in found : j <= later

RECURSIVE SplitOn(_, _)
\* s.split(sep)
SplitOn(s, sep) ==
    LET i == Find(s, sep, 1)
    IN  IF i = 0 THEN <<s>>
        ELSE <<SubSeq(s, 1, i - 1)>> \o SplitOn(SubSeq(s, i + Len(sep), Len(s)), sep)

RECURSIVE Join(_, _)
\* sep.join(parts)
Join(parts, sep) ==
    IF Len(parts) = 0 THEN ""
    ELSE IF Len(parts) = 1 THEN parts[1]
    ELSE parts[1] \o sep \o Join(Tail(parts), sep)

\* s.count(c)
CountChar(s, c) == Cardinality({i \in 1..Len(s) : Char(s, i) = c})

SeqToSet(q) == {q[i] : i \in 1..Len(q)}

---------------------------------------------------------------------------
(* Values of a field mapping, and Python dicts as insertion-ordered        *)
(* sequences of [k |-> key, v |-> value] with distinct keys                *)

\* t: "null", "int", "float", "str", "list"; a number is n / 10^d
NullV == [t |-> "null", s |-> "", n |-> 0, d |-> 0]
IntV(i) == [t |-> "int", s |-> "", n |-> i, d |-> 0]
FloatV(i, e) == [t |-> "float", s |-> "", n |-> i, d |-> e]
StrV(str) == [t |-> "str", s |-> str, n |-> 0, d |-> 0]
ListV == [t |-> "list", s |-> "", n |-> 0, d |-> 0]

DictKeys(m) == {m[i].k : i \in 1..Len(m)}
DictHas(m, key) == \E i \in 1..Len(m) : m[i].k = key
DictGet(m, key) == m[CHOOSE i \in 1..Len(m) : m[i].k = key].v
DictItems(m) == {<<m[i].k, m[i].v>> : i \in 1..Len(m)}

\* d[key] = value
DictSet(m, key, value) ==
    IF DictHas(m, key)
    THEN [i \in 1..Len(m) |-> IF m[i].k = key THEN [k |-> key, v |-> value] ELSE m[i]]
    ELSE Append(m, [k |-> key, v |-> value])

\* d1 == d2 of two dicts
DictEq(m1, m2) == DictItems(m1) = DictItems(m2)

IsDict(m) == \A i, j \in 1..Len(m) : m[i].k = m[j].k => i = j

---------------------------------------------------------------------------
(* Request Classifier: InvoiceParser.analyze_user_request                  *)

field_keywords == <<
    <<"invoice_number", <<"invoice number", "invoice #", "invoice id", "invoice no", "inv no", "inv #">> >>,
    <<"vendor_name", <<"vendor name", "vendor", "supplier", "company name", "seller", "from", "sold by">> >>,
    <<"customer_name", <<"customer name", "customer", "client", "buyer", "bill to", "sold to">> >>,
    <<"total_amount", <<"total amount", "final total", "grand total", "amount due", "final amount", "net payable", "amount payable", "gross worth", "gross total">> >>,
    <<"date", <<"date", "invoice date", "issue date", "created date">> >>,
    <<"due_date", <<"due date", "payment due", "due by">> >>,
    <<"tax", <<"tax", "vat", "gst", "sales tax", "igst", "cgst", "sgst">> >>,
    <<"taxable_value", <<"taxable value", "taxable amount", "net worth", "net amount">> >>,
    <<"subtotal", <<"subtotal", "sub total">> >>,
    <<"items", <<"items", "products", "line items", "goods", "services">> >>,
    <<"address", <<"address", "billing address", "shipping address">> >>,
    <<"phone", <<"phone", "telephone", "contact", "tel">> >>,
    <<"email", <<"email", "e-mail", "electronic mail">> >>,
    <<"po_number", <<"po number", "purchase order", "po #">> >>,
    <<"discount", <<"discount", "reduction">> >>,
    <<"currency", <<"currency", "curr">> >> >>

\* self.field_keywords.get(field_type, [])
KeywordsOf(field_type) ==
    IF \E i \in 1..Len(field_keywords) : field_keywords[i][1] = field_type
    THEN SeqToSet(field_keywords[CHOOSE i \in 1..Len(field_keywords) :
                                     field_keywords[i][1] = field_type][2])
    ELSE {}

total_request_terms == {"total cost", "total amount", "total", "final total"}
specific_indicators == {"only", "just", "extract", "find", "get", "what is"}
all_indicators == {"all", "everything", "complete", "full", "entire"}

ShortPromptWords == 5

\* analyze_user_request taking a prompt for short only below five words
analyze_user_request_below(user_prompt) ==
    LET user_prompt_lower == Lower(user_prompt)
        matched == SelectSeq(field_keywords,
                             LAMBDA e : ContainsAny(user_prompt_lower, SeqToSet(e[2])))
        by_keyword == [i \in 1..Len(matched) |-> matched[i][1]]
        requested_fields ==
            IF ContainsAny(user_prompt_lower, total_request_terms)
               /\ "total_amount" \notin SeqToSet(by_keyword)
            THEN Append(by_keyword, "total_amount")
            ELSE by_keyword
        indicated == ContainsAny(user_prompt_lower, specific_indicators)
        wants_all == ContainsAny(user_prompt_lower, all_indicators)
        short == Len(requested_fields) = 0
                 /\ Len(SplitWords(user_prompt)) < ShortPromptWords
    IN  [requested_fields |-> requested_fields,
         is_specific_request |-> indicated \/ short,
         extraction_type |-> IF short THEN "specific"
                             ELSE IF wants_all THEN "all"
                             ELSE IF indicated THEN "specific"
                             ELSE "general"]

analyze_user_request(user_prompt) ==
    LET user_prompt_lower == Lower(user_prompt)
        matched == SelectSeq(field_keywords,
                             LAMBDA e : ContainsAny(user_prompt_lower, SeqToSet(e[2])))
        by_keyword == [i \in 1..Len(matched) |-> matched[i][1]]
        requested_fields ==
            IF ContainsAny(user_prompt_lower, total_request_terms)
               /\ "total_amount" \notin SeqToSet(by_keyword)
            THEN Append(by_keyword, "total_amount")
            ELSE by_keyword
        indicated == ContainsAny(user_prompt_lower, specific_indicators)
        wants_all == ContainsAny(user_prompt_lower, all_indicators)
        short == Len(requested_fields) = 0
                 /\ Len(SplitWords(user_prompt)) <= ShortPromptWords
    IN  [requested_fields |-> requested_fields,
         is_specific_request |-> indicated \/ short,
         extraction_type |-> IF short THEN "specific"
                             ELSE IF wants_all THEN "all"
                             ELSE IF indicated THEN "specific"
                             ELSE "general"]

---------------------------------------------------------------------------
(* Field Filter: InvoiceParser.filter_extracted_data                       *)

filter_total_terms == {"total cost", "total amount", "total"}
total_priority == <<"gross_total", "gross_worth", "final_total", "grand_total",
                    "total_amount", "amount_due", "total", "final_amount">>
filter_avoid == {"taxable", "net_worth", "net_amount", "subtotal"}

RECURSIVE BestTotal(_, _, _)
\* the loop of lines 322-340: the index of best_total_field, 0 for None
BestTotal(extracted_data, i, best) ==
    IF i > Len(extracted_data) THEN best
    ELSE LET key_lower == Lower(extracted_data[i].k)
             by_priority ==
                 IF ContainsAny(key_lower, SeqToSet(total_priority)) /\ best = 0
                 THEN i ELSE best
             by_generic ==
                 IF by_priority = 0 /\ Contains(key_lower, "total")
                 THEN i ELSE by_priority
         IN  IF ContainsAny(key_lower, filter_avoid)
             THEN BestTotal(extracted_data, i + 1, best)
             ELSE BestTotal(extracted_data, i + 1, by_generic)

MinPromptWordLen == 3

\* the words of the prompt longer than three characters
PromptWords(user_prompt_lower) ==
    {w \in SeqToSet(SplitWords(user_prompt_lower)) : Len(w) > MinPromptWordLen}

\* include_field matching a key on any single word of a keyword instead of the
\* whole keyword
IncludeFieldByWord(key, requested_fields, user_prompt_lower) ==
    LET key_lower == ReplaceChar(ReplaceChar(Lower(key), "_", " "), "-", " ")
    IN  \/ \E field_type \in SeqToSet(requested_fields) :
              \E keyword \in KeywordsOf(field_type) :
                  ContainsAny(key_lower, SeqToSet(SplitWords(keyword)))
        \/ \E word \in PromptWords(user_prompt_lower) :
              \/ Contains(key_lower, word)
              \/ \E keyword \in SeqToSet(SplitWords(key_lower)) : Contains(keyword, word)

\* include_field of lines 346-362
IncludeField(key, requested_fields, user_prompt_lower) ==
    LET key_lower == ReplaceChar(ReplaceChar(Lower(key), "_", " "), "-", " ")
    IN  \/ \E field_type \in SeqToSet(requested_fields) :
              ContainsAny(key_lower, KeywordsOf(field_type))
        \/ \E word \in PromptWords(user_prompt_lower) :
              \/ Contains(key_lower, word)
              \/ \E keyword \in SeqToSet(SplitWords(key_lower)) : Contains(keyword, word)

RECURSIVE IncludeMatchingLowered(_, _, _, _, _)
\* the loop of lines 346-365 storing a matching field under its lower-cased key
IncludeMatchingLowered(extracted_data, i, filtered, requested_fields, user_prompt_lower) ==
    IF i > Len(extracted_data) THEN filtered
    ELSE IncludeMatchingLowered(extracted_data, i + 1,
            IF IncludeField(extracted_data[i].k, requested_fields, user_prompt_lower)
            THEN DictSet(filtered, Lower(extracted_data[i].k), extracted_data[i].v)
            ELSE filtered,
            requested_fields, user_prompt_lower)

RECURSIVE IncludeMatching(_, _, _, _, _)
\* the loop of lines 346-365
IncludeMatching(extracted_data, i, filtered, requested_fields, user_prompt_lower) ==
    IF i > Len(extracted_data) THEN filtered
    ELSE IncludeMatching(extracted_data, i + 1,
            IF IncludeField(extracted_data[i].k, requested_fields, user_prompt_lower)
            THEN DictSet(filtered, extracted_data[i].k, extracted_data[i].v)
            ELSE filtered,
            requested_fields, user_prompt_lower)

VeryShortPromptWords == 3

\* the fallback taking the first entry without the test of its value
FirstEntry(extracted_data) ==
    IF Len(extracted_data) > 0 THEN <<extracted_data[1]>> ELSE <<>>

\* lines 372-375: the first entry whose value is not None
FirstNonNull(extracted_data) ==
    IF \E i \in 1..Len(extracted_data) : extracted_data[i].v # NullV
    THEN <<extracted_data[CHOOSE i \in 1..Len(extracted_data) :
              /\ extracted_data[i].v # NullV
              /\ \A j \in 1..(i - 1) : extracted_data[j].v = NullV]>>
    ELSE <<>>

filter_extracted_data(extracted_data, user_prompt) ==
    LET request_analysis == analyze_user_request(user_prompt)
        user_prompt_lower == Lower(user_prompt)
        best == IF ContainsAny(user_prompt_lower, filter_total_terms)
                THEN BestTotal(extracted_data, 1, 0) ELSE 0
        with_total ==
            IF best # 0 /\ extracted_data[best].k # ""
            THEN <<extracted_data[best]>> ELSE <<>>
        matching == IncludeMatching(extracted_data, 1, with_total,
                                    request_analysis.requested_fields, user_prompt_lower)
        lenient ==
            IF Len(matching) = 0 /\ Len(extracted_data) # 0
            THEN IF Len(SplitWords(user_prompt)) <= VeryShortPromptWords
                 THEN FirstNonNull(extracted_data)
                 ELSE extracted_data
            ELSE matching
    IN  IF request_analysis.extraction_type = "all" THEN extracted_data
        ELSE IF Len(request_analysis.requested_fields) = 0
                /\ ~request_analysis.is_specific_request THEN extracted_data
        ELSE IF Len(lenient) # 0 THEN lenient
        ELSE extracted_data

---------------------------------------------------------------------------
(* Numbers: Python's int(), float() and str() on the text the code hands   *)
(* them.  A number is the exact decimal n / 10^d.                          *)

RECURSIVE Pow10(_)
Pow10(e) == IF e = 0 THEN 1 ELSE 10 * Pow10(e - 1)

\* the value of each digit
DigitValues == [c \in DigitChars |-> (CHOOSE i \in 1..Len(Digits) : Char(Digits, i) = c) - 1]

DigitValue(c) == DigitValues[c]

RECURSIVE DigitsToInt(_, _)
DigitsToInt(s, acc) ==
    IF s = "" THEN acc ELSE DigitsToInt(Tail(s), 10 * acc + DigitValue(Head(s)))

AllDigits(s) == \A i \in 1..Len(s) : IsDigit(Char(s, i))

RECURSIVE Normal(_, _)
\* n / 10^d without trailing decimal zeros
Normal(n, d) == IF d > 0 /\ n % 10 = 0 THEN Normal(n \div 10, d - 1) ELSE [n |-> n, d |-> d]

Abs(x) == IF x < 0 THEN -x ELSE x

NoNumber == [ok |-> FALSE, n |-> 0, d |-> 0]

\* int(s) for s made of digits, "." and "-": ValueError is ok = FALSE
ParseInt(s) ==
    LET neg == s # "" /\ Head(s) = "-"
        body == IF neg THEN Tail(s) ELSE s
    IN  IF body # "" /\ AllDigits(body)
        THEN [ok |-> TRUE, n |-> (IF neg THEN -1 ELSE 1) * DigitsToInt(body, 0), d |-> 0]
        ELSE NoNumber

\* float(s) for s made of digits, "." and "-": ValueError is ok = FALSE
ParseFloat(s) ==
    LET neg == s # "" /\ Head(s) = "-"
        body == IF neg THEN Tail(s) ELSE s
        dot == Find(body, ".", 1)
        whole == IF dot = 0 THEN body ELSE SubSeq(body, 1, dot - 1)
        frac == IF dot = 0 THEN "" ELSE SubSeq(body, dot + 1, Len(body))
    IN  IF AllDigits(whole) /\ AllDigits(frac) /\ whole \o frac # ""
        THEN LET v == Normal(DigitsToInt(whole \o frac, 0), Len(frac))
             IN  [ok |-> TRUE, n |-> (IF neg THEN -1 ELSE 1) * v.n, d |-> v.d]
        ELSE NoNumber

RECURSIVE NatToStr(_)
NatToStr(i) ==
    IF i < 10 THEN Char(Digits, i + 1)
    ELSE NatToStr(i \div 10) \o Char(Digits, (i % 10) + 1)

RECURSIVE ZeroPad(_, _)
ZeroPad(s, width) == IF Len(s) >= width THEN s ELSE ZeroPad("0" \o s, width)

\* str(value) of an int, a float or a str
PyStr(value) ==
    LET sign == IF value.n < 0 THEN "-" ELSE ""
        mag == Abs(value.n)
    IN  IF value.t = "str" THEN value.s
        ELSE IF value.t = "int" THEN sign \o NatToStr(mag)
        ELSE IF value.t = "float"
        THEN IF value.d = 0 THEN sign \o NatToStr(mag) \o ".0"
             ELSE sign \o NatToStr(mag \div Pow10(value.d)) \o "."
                  \o ZeroPad(NatToStr(mag % Pow10(value.d)), value.d)
        ELSE IF value.t = "null" THEN "None"
        ELSE "['x']"

IsNumber(value) == value.t \in {"int", "float"}

\* a < b for two numbers [n, d]
NumLess(a, b) == a.n * Pow10(b.d) < b.n * Pow10(a.d)
NumEq(a, b) == a.n * Pow10(b.d) = b.n * Pow10(a.d)

RECURSIVE KeepChars(_, _)
\* re.sub(r'[^...]', '', s): the characters of s that are in keep
KeepChars(s, keep) ==
    IF Len(s) <= 1 THEN (IF IsDigit(s) \/ s \in keep THEN s ELSE "")
    ELSE KeepChars(Left(s), keep) \o KeepChars(Right(s), keep)

---------------------------------------------------------------------------
(* Validator: the format checks of DataValidator                           *)

EmailLocalChar(c) == IsAlpha(c) \/ IsDigit(c) \/ c \in {".", "_", "%", "+", "-"}
EmailDomainChar(c) == IsAlpha(c) \/ IsDigit(c) \/ c \in {".", "-"}

MinTldLen == 2

\* re.match(r'^[a-zA-Z0-9._%+-]+@[a-zA-Z0-9.-]+\.[a-zA-Z]{2,}$', email)
EmailMatches(email) ==
    LET text == IF email # "" /\ Char(email, Len(email)) = "\n"
                THEN {email, SubSeq(email, 1, Len(email) - 1)} ELSE {email}
    IN  \E e \in text : \E at \in 2..Len(e) : \E dot \in (at + 2)..Len(e) :
            /\ Char(e, at) = "@"
            /\ Char(e, dot) = "."
            /\ \A i \in 1..(at - 1) : EmailLocalChar(Char(e, i))
            /\ \A i \in (at + 1)..(dot - 1) : EmailDomainChar(Char(e, i))
            /\ Len(e) - dot >= MinTldLen
            /\ \A i \in (dot + 1)..Len(e) : IsAlpha(Char(e, i))

\* bool(value) is False
Falsy(value) ==
    \/ value.t = "null"
    \/ value.t = "str" /\ value.s = ""
    \/ IsNumber(value) /\ value.n = 0

\* validate_email: "raise" is the TypeError of re.match on a non-string
validate_email(email) ==
    IF Falsy(email) THEN "valid"
    ELSE IF email.t # "str" THEN "raise"
    ELSE IF EmailMatches(email.s) THEN "valid" ELSE "invalid"

RECURSIVE DropChars(_, _)
DropChars(s, drop) ==
    IF Len(s) <= 1 THEN (IF s \in drop THEN "" ELSE s)
    ELSE DropChars(Left(s), drop) \o DropChars(Right(s), drop)

MinPhoneDigits == 7
MaxPhoneDigits == 15

validate_phone(phone) ==
    IF Falsy(phone) THEN TRUE
    ELSE LET cleaned_phone == DropChars(PyStr(phone), {" ", "\n", "\t", "-", "(", ")", "+"})
         IN  /\ cleaned_phone # ""
             /\ AllDigits(cleaned_phone)
             /\ MinPhoneDigits <= Len(cleaned_phone)
             /\ Len(cleaned_phone) <= MaxPhoneDigits

validate_amount(amount) ==
    IF amount.t = "null" THEN TRUE
    ELSE IF amount.t = "str"
    THEN LET cleaned_amount == KeepChars(amount.s, {".", "-", ","})
         IN  IF cleaned_amount = "" THEN TRUE
             ELSE ParseFloat(ReplaceChar(cleaned_amount, ",", ".")).ok
    ELSE IsNumber(amount)

InvoiceNumberChar(c) == IsAlpha(c) \/ IsDigit(c) \/ c \in {"-", "_", "/", "#"}

\* re.match(r'^[a-zA-Z0-9\-_/#]+$', str(invoice_number))
validate_invoice_number(invoice_number) ==
    IF Falsy(invoice_number) THEN TRUE
    ELSE LET text == PyStr(invoice_number)
             body == IF Char(text, Len(text)) = "\n"
                     THEN {text, SubSeq(text, 1, Len(text) - 1)} ELSE {text}
         IN  \E b \in body : b # "" /\ \A i \in 1..Len(b) : InvoiceNumberChar(Char(b, i))

\* datetime.strptime(text, fmt) for the formats of validate_date

LeapYear(y) == (y % 4 = 0 /\ y % 100 # 0) \/ y % 400 = 0

DaysInMonth(y, m) ==
    IF m = 2 THEN (IF LeapYear(y) THEN 29 ELSE 28)
    ELSE IF m \in {4, 6, 9, 11} THEN 30
    ELSE 31

\* %d: 3[0-1]|[1-2]\d|0[1-9]|[1-9]| [1-9]; 0 when the text does not match
DayOf(part) ==
    LET p == IF Len(part) = 2 /\ Head(part) = " " THEN Tail(part) ELSE part
        v == IF p # "" /\ AllDigits(p) THEN DigitsToInt(p, 0) ELSE 0
    IN  IF Len(p) \in {1, 2} /\ v >= 1 /\ v <= 31 THEN v ELSE 0

\* %m: 1[0-2]|0[1-9]|[1-9]; 0 when the text does not match
MonthOf(part) ==
    LET v == IF part # "" /\ AllDigits(part) THEN DigitsToInt(part, 0) ELSE 0
    IN  IF Len(part) \in {1, 2} /\ v >= 1 /\ v <= 12 THEN v ELSE 0

\* %Y: \d\d\d\d; 0 when the text does not match or the year is 0
YearOf(part) == IF Len(part) = 4 /\ AllDigits(part) THEN DigitsToInt(part, 0) ELSE 0

month_names == <<"january", "february", "march", "april", "may", "june", "july",
                 "august", "september", "october", "november", "december">>

\* %B (full = TRUE) or %b: the month whose name text is, ignoring case
MonthNamed(text, full) ==
    LET name(i) == IF full THEN month_names[i] ELSE SubSeq(month_names[i], 1, 3)
    IN  IF \E i \in 1..Len(month_names) : Lower(text) = name(i)
        THEN CHOOSE i \in 1..Len(month_names) : Lower(text) = name(i)
        ELSE 0

ValidDate(y, m, d) == y >= 1 /\ m >= 1 /\ d >= 1 /\ d <= DaysInMonth(y, m)

\* formats whose three fields are split by sep; order is "YMD", "DMY" or "MDY"
NumericDate(text, sep, order) ==
    LET parts == SplitOn(text, sep)
    IN  /\ Len(parts) = 3
        /\ IF order = "YMD"
           THEN ValidDate(YearOf(parts[1]), MonthOf(parts[2]), DayOf(parts[3]))
           ELSE IF order = "DMY"
           THEN ValidDate(YearOf(parts[3]), MonthOf(parts[2]), DayOf(parts[1]))
           ELSE ValidDate(YearOf(parts[3]), MonthOf(parts[1]), DayOf(parts[2]))

\* '%B %d, %Y' and '%b %d, %Y'
NamedDate(text, full) ==
    \E i \in 1..Len(text) : \E comma \in (i + 1)..Len(text) :
        LET between == SubSeq(text, i + 1, comma - 1)
            after == SubSeq(text, comma + 1, Len(text))
        IN  /\ Char(text, comma) = ","
            /\ MonthNamed(SubSeq(text, 1, i), full) # 0
            /\ between # "" /\ IsSpace(Head(between))
            /\ after # "" /\ IsSpace(Head(after))
            /\ ValidDate(YearOf(LStrip(after)),
                         MonthNamed(SubSeq(text, 1, i), full),
                         DayOf(LStrip(between)))

validate_date(date_str) ==
    IF Falsy(date_str) THEN TRUE
    ELSE LET text == PyStr(date_str)
         IN  \/ NumericDate(text, "-", "YMD")
             \/ NumericDate(text, "/", "DMY")
             \/ NumericDate(text, "/", "MDY")
             \/ NumericDate(text, "-", "DMY")
             \/ NumericDate(text, "-", "MDY")
             \/ NumericDate(text, ".", "DMY")
             \/ NamedDate(text, TRUE)
             \/ NamedDate(text, FALSE)

---------------------------------------------------------------------------
(* Validator: DataValidator.validate_required_fields                       *)

required_field_keywords == <<
    <<"invoice_number", <<"invoice number", "invoice #", "invoice id">> >>,
    <<"total_amount", <<"total", "amount", "total amount", "grand total", "final total", "total cost", "gross total", "gross worth">> >>,
    <<"vendor_name", <<"vendor", "supplier", "company", "from", "sold by">> >>,
    <<"date", <<"date", "invoice date", "due date">> >>,
    <<"customer_name", <<"customer", "client", "to", "bill to">> >> >>

pre_tax_terms == {"taxable", "net_worth", "net_amount"}

\* found of lines 107-120
RequiredFieldFound(data_map, field, keywords) ==
    \E i \in 1..Len(data_map) :
        LET key_lower == Lower(data_map[i].k)
        IN  /\ \E keyword \in keywords : Contains(key_lower, ReplaceChar(keyword, " ", "_"))
            /\ field = "total_amount" => ~ContainsAny(key_lower, pre_tax_terms)

validate_required_fields(data_map, user_prompt) ==
    LET prompt_lower == Lower(user_prompt)
        missing == SelectSeq(required_field_keywords,
                             LAMBDA e : /\ ContainsAny(prompt_lower, SeqToSet(e[2]))
                                        /\ ~RequiredFieldFound(data_map, e[1], SeqToSet(e[2])))
    IN  [i \in 1..Len(missing) |-> missing[i][1]]

---------------------------------------------------------------------------
(* Validator: DataValidator.validate_total_amount_accuracy                 *)
(* Messages are the code's without the numbers it formats into them.       *)

MsgTotalBelowTaxable ==
    "ERROR: Extracted 'total' is less than taxable value. This suggests the wrong amount was extracted as 'total'."
MsgLookForGross ==
    "The system may have extracted 'Net Worth' or 'Taxable Value' instead of 'Gross Total'. Look for the final amount that includes all taxes."
MsgTotalEqualsTaxable ==
    "Warning: Total amount equals taxable value. Check if taxes are included in the total."
MsgOnlyTaxable ==
    "Only taxable/net amounts found. The final total (including taxes) may be missing."
MsgLookForFinal ==
    "Look for 'Gross Total', 'Grand Total', or 'Final Amount' which includes all taxes."
MsgTaxRate ==
    "The amounts suggest a common tax rate. Ensure the higher amount is extracted as the total."

accuracy_request_terms == {"total", "amount", "cost"}
amount_key_terms == {"amount", "total", "cost", "price", "worth"}
total_key_terms == {"total", "grand", "final", "gross_worth", "gross_total"}
common_tax_rates == {10, 15, 18, 20, 25}

\* float(value) of lines 146-149; ok = FALSE is the ValueError or TypeError
AmountOf(value) ==
    IF value.t = "str" THEN ParseFloat(KeepChars(value.s, {".", "-"}))
    ELSE IF IsNumber(value) THEN [ok |-> TRUE, n |-> value.n, d |-> value.d]
    ELSE NoNumber

\* the category of lines 143-157: "total", "taxable", "other", or "none"
AmountCategory(entry) ==
    LET key_lower == Lower(entry.k)
    IN  IF ~ContainsAny(key_lower, amount_key_terms) \/ ~AmountOf(entry.v).ok THEN "none"
        ELSE IF ContainsAny(key_lower, pre_tax_terms) THEN "taxable"
        ELSE IF ContainsAny(key_lower, total_key_terms) THEN "total"
        ELSE "other"

AmountIndexes(data_map, categories) ==
    {i \in 1..Len(data_map) : AmountCategory(data_map[i]) \in categories}

\* an index of idx whose amount is the largest
MaxIndex(data_map, idx) ==
    CHOOSE i \in idx : \A j \in idx : ~NumLess(AmountOf(data_map[i].v), AmountOf(data_map[j].v))

\* abs(difference_percent - rate) < 1, for second_highest # 0
NearTaxRate(highest, second_highest, rate) ==
    LET e == IF highest.d > second_highest.d THEN highest.d ELSE second_highest.d
        h == highest.n * Pow10(e - highest.d)
        s == second_highest.n * Pow10(e - second_highest.d)
    IN  Abs(100 * (h - s) - rate * s) < Abs(s)

\* "raised" is the ZeroDivisionError of line 203
validate_total_amount_accuracy(data_map, user_prompt) ==
    LET total_fields == AmountIndexes(data_map, {"total"})
        taxable_fields == AmountIndexes(data_map, {"taxable"})
        all_amounts == AmountIndexes(data_map, {"total", "taxable", "other"})
        max_total == AmountOf(data_map[MaxIndex(data_map, total_fields)].v)
        max_taxable == AmountOf(data_map[MaxIndex(data_map, taxable_fields)].v)
        inverted == total_fields # {} /\ taxable_fields # {} /\ NumLess(max_total, max_taxable)
        equal == total_fields # {} /\ taxable_fields # {} /\ NumEq(max_total, max_taxable)
        only_taxable == taxable_fields # {} /\ total_fields = {}
        first == MaxIndex(data_map, all_amounts)
        highest == AmountOf(data_map[first].v)
        second_highest == AmountOf(data_map[MaxIndex(data_map, all_amounts \ {first})].v)
        several == Cardinality(all_amounts) > 1
        near == \E rate \in common_tax_rates : NearTaxRate(highest, second_highest, rate)
    IN  IF ~ContainsAny(Lower(user_prompt), accuracy_request_terms)
        THEN [raised |-> FALSE, valid |-> TRUE, warnings |-> <<>>, recommendations |-> <<>>]
        ELSE [raised |-> several /\ second_highest.n = 0,
              valid |-> ~inverted,
              warnings |-> IF inverted THEN <<MsgTotalBelowTaxable>>
                           ELSE IF equal THEN <<MsgTotalEqualsTaxable>>
                           ELSE IF only_taxable THEN <<MsgOnlyTaxable>>
                           ELSE <<>>,
              recommendations |->
                  (IF inverted THEN <<MsgLookForGross>>
                   ELSE IF only_taxable THEN <<MsgLookForFinal>>
                   ELSE <<>>)
                  \o (IF several /\ second_highest.n # 0 /\ near THEN <<MsgTaxRate>> ELSE <<>>)]

---------------------------------------------------------------------------
(* Validator: validate_extraction                                          *)

MsgNoData == "No data extracted from invoice"
MsgValidationError == "Validation error: "
MsgDivisionByZero == "float division by zero"
MsgNotAString == "expected string or bytes-like object"
MsgFieldIsNull == "Field is null"
MsgPreTax(field_name) ==
    "CRITICAL ERROR: '" \o field_name
    \o "' appears to be a pre-tax amount, but user requested total amount. Look for 'Gross Total' or 'Grand Total' instead."
MsgFinalTotal == "Correctly identified as final total"

field_amount_terms == {"amount", "total", "price", "cost", "subtotal", "tax", "worth"}
field_total_request_terms == {"total", "total amount", "total cost"}
final_total_terms == {"total", "grand", "final", "gross"}

NoFinding == [raised |-> FALSE, valid |-> TRUE, message |-> "",
              errors |-> <<>>, warnings |-> <<>>, invalidates |-> FALSE]

\* the body of the loop of lines 243-310 for one field that is not None
FieldCheck(field_name, field_value, user_prompt) ==
    LET field_name_lower == Lower(field_name)
        numeric_value == AmountOf(field_value)
    IN  IF Contains(field_name_lower, "email")
        THEN IF validate_email(field_value) = "raise"
             THEN [NoFinding EXCEPT !.raised = TRUE]
             ELSE IF validate_email(field_value) = "invalid"
             THEN [NoFinding EXCEPT !.valid = FALSE, !.message = "Invalid email format",
                       !.errors = <<"Invalid email format for " \o field_name>>]
             ELSE NoFinding
        ELSE IF Contains(field_name_lower, "phone") \/ Contains(field_name_lower, "tel")
        THEN IF ~validate_phone(field_value)
             THEN [NoFinding EXCEPT !.valid = FALSE, !.message = "Invalid phone format",
                       !.warnings = <<"Questionable phone format for " \o field_name>>]
             ELSE NoFinding
        ELSE IF ContainsAny(field_name_lower, field_amount_terms)
        THEN IF ~validate_amount(field_value)
             THEN [NoFinding EXCEPT !.valid = FALSE, !.message = "Invalid amount format",
                       !.errors = <<"Invalid amount format for " \o field_name>>]
             ELSE IF numeric_value.ok
                     /\ ContainsAny(Lower(user_prompt), field_total_request_terms)
             THEN IF ContainsAny(field_name_lower, pre_tax_terms)
                  THEN [NoFinding EXCEPT !.errors = <<MsgPreTax(field_name)>>,
                            !.invalidates = TRUE]
                  ELSE IF ContainsAny(field_name_lower, final_total_terms)
                  THEN [NoFinding EXCEPT !.message = MsgFinalTotal]
                  ELSE NoFinding
             ELSE NoFinding
        ELSE IF Contains(field_name_lower, "date")
        THEN IF ~validate_date(field_value)
             THEN [NoFinding EXCEPT !.valid = FALSE, !.message = "Invalid date format",
                       !.warnings = <<"Questionable date format for " \o field_name>>]
             ELSE NoFinding
        ELSE IF Contains(field_name_lower, "invoice") /\ Contains(field_name_lower, "number")
        THEN IF ~validate_invoice_number(field_value)
             THEN [NoFinding EXCEPT !.valid = FALSE, !.message = "Invalid invoice number format",
                       !.warnings = <<"Questionable invoice number format for " \o field_name>>]
             ELSE NoFinding
        ELSE NoFinding

\* the findings of the loop body of lines 243-310, one per field
Findings(extracted_data, user_prompt) ==
    [i \in 1..Len(extracted_data) |->
        FieldCheck(extracted_data[i].k, extracted_data[i].v, user_prompt)]

\* the number of fields the loop of lines 243-310 completes: all of them, or
\* those before the first field whose check raises (None fields are skipped
\* at line 247)
Completed(extracted_data, findings) ==
    LET raising == {i \in 1..Len(extracted_data) :
                        extracted_data[i].v # NullV /\ findings[i].raised}
    IN  IF raising = {} THEN Len(extracted_data)
        ELSE (CHOOSE i \in raising : \A j \in raising : i <= j) - 1

RECURSIVE FieldErrors(_, _, _, _)
\* what the fields i..last append to errors
FieldErrors(extracted_data, findings, i, last) ==
    IF i > last THEN <<>>
    ELSE (IF extracted_data[i].v = NullV THEN <<>> ELSE findings[i].errors)
         \o FieldErrors(extracted_data, findings, i + 1, last)

RECURSIVE FieldWarnings(_, _, _, _)
\* what the fields i..last append to warnings
FieldWarnings(extracted_data, findings, i, last) ==
    IF i > last THEN <<>>
    ELSE (IF extracted_data[i].v = NullV THEN <<>> ELSE findings[i].warnings)
         \o FieldWarnings(extracted_data, findings, i + 1, last)

\* field_validations after the fields 1..last (the keys of a dict are distinct)
FieldValidations(extracted_data, findings, last) ==
    [i \in 1..last |->
        [k |-> extracted_data[i].k,
         v |-> IF extracted_data[i].v = NullV
               THEN [valid |-> TRUE, message |-> MsgFieldIsNull]
               ELSE [valid |-> findings[i].valid, message |-> findings[i].message]]]

\* some field 1..last set is_valid to False at line 287
FieldInvalidates(extracted_data, findings, last) ==
    \E i \in 1..last : extracted_data[i].v # NullV /\ findings[i].invalidates

NoSummary == [present |-> FALSE, total_fields |-> 0, valid_fields |-> 0,
              error_count |-> 0, warning_count |-> 0, recommendation_count |-> 0]

EmptyReport == [raised |-> FALSE, is_valid |-> TRUE, errors |-> <<>>, warnings |-> <<>>,
                recommendations |-> <<>>, field_validations |-> <<>>, summary |-> NoSummary]

\* "Possibly missing field" warnings of lines 313-315
MissingWarnings(extracted_data, user_prompt) ==
    LET missing_fields == validate_required_fields(extracted_data, user_prompt)
    IN  [i \in 1..Len(missing_fields) |-> "Possibly missing field: " \o missing_fields[i]]

\* the report once the loop has completed the fields 1..last; raised records
\* that the except clause of lines 332-335 ran
Report(extracted_data, total_validation, findings, last, missing) ==
    LET errors == FieldErrors(extracted_data, findings, 1, last)
        field_warnings == total_validation.warnings
                          \o FieldWarnings(extracted_data, findings, 1, last)
        field_validations == FieldValidations(extracted_data, findings, last)
        warnings == field_warnings \o missing
    IN  IF last < Len(extracted_data)
        THEN [raised |-> TRUE,
              is_valid |-> FALSE,
              errors |-> Append(errors, MsgValidationError \o MsgNotAString),
              warnings |-> field_warnings,
              recommendations |-> total_validation.recommendations,
              field_validations |-> field_validations,
              summary |-> NoSummary]
        ELSE [raised |-> FALSE,
              is_valid |-> /\ total_validation.valid
                           /\ ~FieldInvalidates(extracted_data, findings, last)
                           /\ Len(errors) = 0,
              errors |-> errors,
              warnings |-> warnings,
              recommendations |-> total_validation.recommendations,
              field_validations |-> field_validations,
              summary |-> [present |-> TRUE,
                           total_fields |-> Len(extracted_data),
                           valid_fields |-> Cardinality({i \in 1..Len(field_validations) :
                                                          field_validations[i].v.valid}),
                           error_count |-> Len(errors),
                           warning_count |-> Len(warnings),
                           recommendation_count |-> Len(total_validation.recommendations)]]

\* lines 243-337 after the total check returned total_validation
Checked(extracted_data, total_validation, findings, missing) ==
    IF total_validation.raised
    THEN [EmptyReport EXCEPT !.raised = TRUE, !.is_valid = FALSE,
              !.errors = <<MsgValidationError \o MsgDivisionByZero>>]
    ELSE Report(extracted_data, total_validation, findings,
                Completed(extracted_data, findings), missing)

validate_extraction(extracted_data, user_prompt) ==
    IF Len(extracted_data) = 0
    THEN [EmptyReport EXCEPT !.is_valid = FALSE, !.errors = <<MsgNoData>>]
    ELSE Checked(extracted_data,
                 validate_total_amount_accuracy(extracted_data, user_prompt),
                 Findings(extracted_data, user_prompt),
                 MissingWarnings(extracted_data, user_prompt))

---------------------------------------------------------------------------
(* Field Normalizer: InvoiceParser.post_process_data                       *)

placeholders == {"n/a", "na", "none", "null"}
coerced_key_terms == {"amount", "total", "price", "cost", "tax"}

\* key.strip().lower().replace(' ', '_').replace('-', '_')
CleanKey(key) == ReplaceChar(ReplaceChar(Lower(Strip(key)), " ", "_"), "-", "_")

\* lines 399-407 on the stripped text of an amount-like field
CoerceAmount(text) ==
    LET numeric_value == KeepChars(text, {".", "-"})
        as_float == ParseFloat(numeric_value)
        as_int == ParseInt(numeric_value)
    IN  IF Contains(numeric_value, ".")
        THEN IF as_float.ok THEN FloatV(as_float.n, as_float.d) ELSE StrV(text)
        ELSE IF numeric_value = "" THEN NullV
        ELSE IF as_int.ok THEN IntV(as_int.n) ELSE StrV(text)

\* the placeholder test applied to the text as given, before it is trimmed
CleanValueUntrimmed(clean_key, value) ==
    IF value.t # "str" THEN value
    ELSE IF value.s = "" \/ Lower(value.s) \in placeholders THEN NullV
    ELSE IF ContainsAny(clean_key, coerced_key_terms) THEN CoerceAmount(Strip(value.s))
    ELSE StrV(Strip(value.s))

\* lines 391-407: the value stored under clean_key
CleanValue(clean_key, value) ==
    IF value.t # "str" THEN value
    ELSE LET text == Strip(value.s)
         IN  IF text = "" \/ Lower(text) \in placeholders THEN NullV
             ELSE IF ContainsAny(clean_key, coerced_key_terms) THEN CoerceAmount(text)
             ELSE StrV(text)

RECURSIVE PostProcessFrom(_, _, _)
\* the loop of lines 386-409
PostProcessFrom(data_map, i, processed_data) ==
    IF i > Len(data_map) THEN processed_data
    ELSE PostProcessFrom(data_map, i + 1,
            DictSet(processed_data, CleanKey(data_map[i].k),
                    CleanValue(CleanKey(data_map[i].k), data_map[i].v)))

post_process_data(data_map) == PostProcessFrom(data_map, 1, <<>>)

---------------------------------------------------------------------------
(* json.loads on the texts of the model: objects, arrays, strings, numbers *)
(* without exponent, true, false and null.  The texts hold no backslash,   *)
(* so a string ends at the next double quote.                              *)

BoolV(b) == [t |-> "bool", s |-> "", n |-> IF b THEN 1 ELSE 0, d |-> 0]
JsonObject(members) == [t |-> "dict", items |-> members]
JsonArray(elements) == [t |-> "list", items |-> elements]

JsonSpaceChars == {" ", "\t", "\n", "\r"}

RECURSIVE SkipSpace(_)
SkipSpace(s) == IF s # "" /\ Head(s) \in JsonSpaceChars THEN SkipSpace(Tail(s)) ELSE s

\* a scan of a JSON value at the head of a text: the value and the text left
Scanned(value, rest) == [ok |-> TRUE, v |-> value, rest |-> rest]
\* json.JSONDecodeError
DecodeError == [ok |-> FALSE, v |-> NullV, rest |-> ""]

\* the string whose opening quote precedes s; a control character inside a
\* string is an error
ScanString(s) ==
    LET close == Find(s, "\"", 1)
        content == SubSeq(s, 1, close - 1)
    IN  IF close = 0 \/ Chars(content) \cap {"\n", "\t", "\r"} # {}
        THEN DecodeError
        ELSE Scanned(StrV(content), From(s, close + 1))

RECURSIVE DigitRun(_)
\* the digits at the head of s
DigitRun(s) == IF s # "" /\ IsDigit(Head(s)) THEN Head(s) \o DigitRun(Tail(s)) ELSE ""

\* the number at the head of s: -?(0|[1-9]\d*)(\.\d+)?
ScanNumber(s) ==
    LET sign == IF StartsWith(s, "-") THEN "-" ELSE ""
        digits == DigitRun(From(s, Len(sign) + 1))
        whole == IF StartsWith(digits, "0") THEN "0" ELSE digits
        after == From(s, Len(sign) + Len(whole) + 1)
        frac == IF StartsWith(after, ".") THEN DigitRun(Tail(after)) ELSE ""
        number == ParseFloat(sign \o whole \o "." \o frac)
    IN  IF whole = "" THEN DecodeError
        ELSE IF frac = ""
        THEN Scanned(IntV(ParseInt(sign \o whole).n), after)
        ELSE Scanned(FloatV(number.n, number.d), From(after, Len(frac) + 2))

RECURSIVE ScanValue(_)
RECURSIVE ScanMembers(_, _)
RECURSIVE ScanElements(_, _)

\* the value at the head of s
ScanValue(s) ==
    IF StartsWith(s, "\"") THEN ScanString(Tail(s))
    ELSE IF StartsWith(s, "{")
    THEN IF StartsWith(SkipSpace(Tail(s)), "}")
         THEN Scanned(JsonObject(<<>>), Tail(SkipSpace(Tail(s))))
         ELSE ScanMembers(SkipSpace(Tail(s)), <<>>)
    ELSE IF StartsWith(s, "[")
    THEN IF StartsWith(SkipSpace(Tail(s)), "]")
         THEN Scanned(JsonArray(<<>>), Tail(SkipSpace(Tail(s))))
         ELSE ScanElements(SkipSpace(Tail(s)), <<>>)
    ELSE IF StartsWith(s, "null") THEN Scanned(NullV, From(s, 5))
    ELSE IF StartsWith(s, "true") THEN Scanned(BoolV(TRUE), From(s, 5))
    ELSE IF StartsWith(s, "false") THEN Scanned(BoolV(FALSE), From(s, 6))
    ELSE ScanNumber(s)

\* the members of an object from the key at the head of s on; a key said
\* twice keeps its first place and its last value
ScanMembers(s, members) ==
    LET key == IF StartsWith(s, "\"") THEN ScanString(Tail(s)) ELSE DecodeError
        colon == SkipSpace(key.rest)
        value == IF key.ok /\ StartsWith(colon, ":")
                 THEN ScanValue(SkipSpace(Tail(colon))) ELSE DecodeError
        after == SkipSpace(value.rest)
    IN  IF ~value.ok THEN DecodeError
        ELSE IF StartsWith(after, ",")
        THEN ScanMembers(SkipSpace(Tail(after)), DictSet(members, key.v.s, value.v))
        ELSE IF StartsWith(after, "}")
        THEN Scanned(JsonObject(DictSet(members, key.v.s, value.v)), Tail(after))
        ELSE DecodeError

\* the elements of an array from the value at the head of s on
ScanElements(s, elements) ==
    LET value == ScanValue(s)
        after == SkipSpace(value.rest)
    IN  IF ~value.ok THEN DecodeError
        ELSE IF StartsWith(after, ",")
        THEN ScanElements(SkipSpace(Tail(after)), Append(elements, value.v))
        ELSE IF StartsWith(after, "]")
        THEN Scanned(JsonArray(Append(elements, value.v)), Tail(after))
        ELSE DecodeError

\* json.loads(s): ok = FALSE is json.JSONDecodeError
loads(s) ==
    LET value == ScanValue(SkipSpace(s))
    IN  IF value.ok /\ SkipSpace(value.rest) = "" THEN value ELSE DecodeError

---------------------------------------------------------------------------
(* Tolerant JSON Normaliser: InvoiceParser.fix_common_json_issues          *)

RECURSIVE DropTrailingCommas(_)
\* re.sub(r',(\s*[}\]])', r'\1', json_str), from comma to comma
DropTrailingCommas(json_str) ==
    LET comma == Find(json_str, ",", 1)
        closing == LStrip(From(json_str, comma + 1))
    IN  IF comma = 0 THEN json_str
        ELSE IF StartsWith(closing, "}") \/ StartsWith(closing, "]")
        THEN SubSeq(json_str, 1, comma - 1)
             \o SubSeq(json_str, comma + 1, Len(json_str) - Len(closing) + 1)
             \o DropTrailingCommas(Tail(closing))
        ELSE SubSeq(json_str, 1, comma) \o DropTrailingCommas(From(json_str, comma + 1))

RECURSIVE RequoteKeys(_)
\* re.sub(r"'([^']*)':", r'"\1":', json_str), from quote to quote
RequoteKeys(json_str) ==
    LET open == Find(json_str, "'", 1)
        close == Find(json_str, "'", open + 1)
    IN  IF open = 0 THEN json_str
        ELSE IF close > 0 /\ StartsWith(From(json_str, close + 1), ":")
        THEN SubSeq(json_str, 1, open - 1)
             \o "\"" \o SubSeq(json_str, open + 1, close - 1) \o "\":"
             \o RequoteKeys(From(json_str, close + 2))
        ELSE SubSeq(json_str, 1, open) \o RequoteKeys(From(json_str, open + 1))

RECURSIVE RequoteValues(_)
\* re.sub(r":\s*'([^']*)'", r': "\1"', json_str), from colon to colon
RequoteValues(json_str) ==
    LET colon == Find(json_str, ":", 1)
        open == LStrip(From(json_str, colon + 1))
        close == Find(open, "'", 2)
    IN  IF colon = 0 THEN json_str
        ELSE IF StartsWith(open, "'") /\ close > 0
        THEN SubSeq(json_str, 1, colon - 1)
             \o ": \"" \o SubSeq(open, 2, close - 1) \o "\""
             \o RequoteValues(From(open, close + 1))
        ELSE SubSeq(json_str, 1, colon) \o RequoteValues(From(json_str, colon + 1))

RECURSIVE WordBefore(_, _)
\* the start of the \w characters that end just before position i of s
WordBefore(s, i) ==
    IF i > 1 /\ IsWordChar(Char(s, i - 1)) THEN WordBefore(s, i - 1) ELSE i

RECURSIVE QuoteBareKeys(_)
\* re.sub(r'(\w+):', r'"\1":', json_str), from colon to colon
QuoteBareKeys(json_str) ==
    LET colon == Find(json_str, ":", 1)
        word == WordBefore(json_str, colon)
    IN  IF colon = 0 THEN json_str
        ELSE IF word < colon
        THEN SubSeq(json_str, 1, word - 1)
             \o "\"" \o SubSeq(json_str, word, colon - 1) \o "\":"
             \o QuoteBareKeys(From(json_str, colon + 1))
        ELSE SubSeq(json_str, 1, colon) \o QuoteBareKeys(From(json_str, colon + 1))

fix_common_json_issues(json_str) ==
    QuoteBareKeys(RequoteValues(RequoteKeys(DropTrailingCommas(json_str))))

---------------------------------------------------------------------------
(* Tolerant JSON Normaliser: InvoiceParser.parse_llm_response              *)

Fence == "~~~"
JsonFence == "~~~json"

\* lines 214-226: the response without its markdown fence
CleanedResponse(response) ==
    LET cleaned_response == Strip(response)
        parts == SplitOn(cleaned_response, Fence)
    IN  IF Contains(cleaned_response, JsonFence)
        THEN Strip(SplitOn(SplitOn(cleaned_response, JsonFence)[2], Fence)[1])
        ELSE IF Contains(cleaned_response, Fence)
        THEN IF Len(parts) >= 3 THEN Strip(parts[2]) ELSE Strip(parts[Len(parts)])
        ELSE cleaned_response

RECURSIVE JsonLines(_, _, _, _, _)
\* lines 234-243: the lines from the first one holding "{" to the first one
\* that holds "}" and brings the count of braces to zero
JsonLines(lines, i, in_json, brace_count, json_lines) ==
    LET line == lines[i]
        now_in_json == in_json \/ Contains(line, "{")
        count == brace_count + CountChar(line, "{") - CountChar(line, "}")
    IN  IF i > Len(lines) THEN json_lines
        ELSE IF ~now_in_json THEN JsonLines(lines, i + 1, FALSE, brace_count, json_lines)
        ELSE IF count = 0 /\ Contains(line, "}") THEN Append(json_lines, line)
        ELSE JsonLines(lines, i + 1, TRUE, count, Append(json_lines, line))

\* s.rfind(sub) from 1-based position i down; 0 when absent
RFind(s, sub, i) ==
    LET found == {j \in 1..i : SubSeq(s, j, j + Len(sub) - 1) = sub}
    IN  IF found = {} THEN 0 ELSE CHOOSE j \in found : \A earlier \in found : earlier <= j

\* lines 229-255: the text handed to the strict parse
JsonStr(cleaned_response) ==
    LET json_lines == JsonLines(SplitOn(cleaned_response, "\n"), 1, FALSE, 0, <<>>)
        start_idx == Find(cleaned_response, "{", 1)
        end_idx == RFind(cleaned_response, "}", Len(cleaned_response))
    IN  IF Len(json_lines) > 0 THEN Join(json_lines, "\n")
        ELSE IF start_idx # 0 /\ end_idx # 0 THEN SubSeq(cleaned_response, start_idx, end_idx)
        ELSE cleaned_response

NoOutcome == [kind |-> "none", value |-> NullV, message |-> ""]
Returned(value) == [kind |-> "returned", value |-> value, message |-> ""]
Raised(message) == [kind |-> "raised", value |-> NullV, message |-> message]

MsgEmptyResponse == "Empty response from LLM"
MsgNotJsonObject == "Failed to parse LLM response: LLM response is not a JSON object"
MsgParseFailed == "Failed to parse LLM response as JSON"

\* the working strings after lines 214-255
Cleaned(cleaned_response) ==
    [cleaned_response |-> cleaned_response, json_str |-> JsonStr(cleaned_response),
     fixed_json |-> ""]

\* lines 258-264: NoOutcome is json.JSONDecodeError, caught at line 266
StrictOutcome(parsed_data) ==
    IF ~parsed_data.ok THEN NoOutcome
    ELSE IF parsed_data.v.t = "dict" THEN Returned(parsed_data.v)
    ELSE Raised(MsgNotJsonObject)

\* lines 273-275: the parse after repair returns what it parsed
RetryOutcome(parsed_data) ==
    IF parsed_data.ok THEN Returned(parsed_data.v) ELSE Raised(MsgParseFailed)

\* lines 266-275: the repair pass and the parse after it, when the strict
\* parse raised json.JSONDecodeError
AfterRepair(strict, cleaned_response) ==
    IF strict.kind # "none" THEN strict
    ELSE RetryOutcome(loads(fix_common_json_issues(cleaned_response)))

\* lines 258-279
AfterStrictParse(cleaned) ==
    AfterRepair(StrictOutcome(loads(cleaned.json_str)), cleaned.cleaned_response)

\* parse_llm_response as one call
parse_llm_response(response) ==
    IF Strip(response) = "" THEN Raised(MsgEmptyResponse)
    ELSE AfterStrictParse(Cleaned(CleanedResponse(response)))

---------------------------------------------------------------------------
(* Text extraction: InvoiceParser.extract_text_from_pdf.  A PDF is the     *)
(* texts its pages yield; "" is a page that yields nothing or whose        *)
(* extraction raises, and readable = FALSE is a file the reader rejects.   *)

RECURSIVE LastNewline(_, _)
\* the length of the whitespace at the head of s up to its last newline
LastNewline(s, i) ==
    IF i > Len(s) \/ ~IsSpace(Char(s, i)) THEN 0
    ELSE LET later == LastNewline(s, i + 1)
         IN  IF later > 0 THEN later ELSE IF Char(s, i) = "\n" THEN i ELSE 0

RECURSIVE CollapseBlankLines(_)
\* re.sub(r'\n\s*\n', '\n\n', text), from newline to newline
CollapseBlankLines(s) ==
    LET newline == Find(s, "\n", 1)
        last == LastNewline(From(s, newline + 1), 1)
    IN  IF newline = 0 THEN s
        ELSE IF last > 0
        THEN SubSeq(s, 1, newline - 1) \o "\n\n"
             \o CollapseBlankLines(From(s, newline + last + 1))
        ELSE SubSeq(s, 1, newline) \o CollapseBlankLines(From(s, newline + 1))

RECURSIVE CollapseSpaces(_)
\* re.sub(r' +', ' ', text): of two spaces in a row the first goes
CollapseSpaces(s) ==
    LET pair == Find(s, "  ", 1)
    IN  IF pair = 0 THEN s
        ELSE SubSeq(s, 1, pair - 1) \o CollapseSpaces(From(s, pair + 1))

\* the texts of the model hold none of the control characters that line 81
\* removes
clean_extracted_text(s) == Strip(CollapseSpaces(CollapseBlankLines(s)))

RECURSIVE PageTexts(_, _)
\* lines 55-63: text_content from page page_num on
PageTexts(pages, page_num) ==
    IF page_num > Len(pages) THEN ""
    ELSE (IF pages[page_num] # ""
          THEN "--- Page " \o NatToStr(page_num) \o " ---\n" \o pages[page_num] \o "\n"
          ELSE "")
         \o PageTexts(pages, page_num + 1)

MsgExtractFailed == "Failed to extract text from PDF: "
MsgReaderError == "the PDF reader raised"
MsgNoPages == "PDF contains no pages"
MsgNoReadableText == "No readable text found in PDF"

Extracted(invoice_text) == [raised |-> FALSE, message |-> "", invoice_text |-> invoice_text]
ExtractionRaised(cause) ==
    [raised |-> TRUE, message |-> MsgExtractFailed \o cause, invoice_text |-> ""]

extract_text_from_pdf(pdf_file) ==
    IF ~pdf_file.readable THEN ExtractionRaised(MsgReaderError)
    ELSE IF Len(pdf_file.pages) = 0 THEN ExtractionRaised(MsgNoPages)
    ELSE IF Strip(PageTexts(pdf_file.pages, 1)) = "" THEN ExtractionRaised(MsgNoReadableText)
    ELSE Extracted(clean_extracted_text(PageTexts(pdf_file.pages, 1)))

---------------------------------------------------------------------------
(* Pipeline: the envelopes of parse_invoice                                *)

\* llm_response: None, or a text
NoneText == [none |-> TRUE, s |-> ""]
Text(s) == [none |-> FALSE, s |-> s]

MsgNoPdf == "No PDF file provided"
MsgNoPrompt == "No user prompt provided"
MsgNoText == "No text could be extracted from the PDF file"
MsgNoResponse == "No response received from LLM"
MsgOracleRaised == "the oracle raised"
MsgNoItems == "object has no attribute 'items'"

NoEnvelope ==
    [keys |-> {}, success |-> FALSE, error |-> "", data |-> <<>>, validation |-> EmptyReport,
     raw_output |-> NoneText, extracted_text_length |-> 0, fields_extracted |-> 0]

\* lines 422-431 and 437-441
Refused(error) ==
    [NoEnvelope EXCEPT !.keys = {"success", "error"}, !.error = error]

\* lines 451-456
NoResponse ==
    [NoEnvelope EXCEPT !.keys = {"success", "error", "raw_output"}, !.error = MsgNoResponse]

\* the envelope of the except clause without the oracle's text
CaughtWithoutText(error, llm_response) ==
    [NoEnvelope EXCEPT !.keys = {"success", "error", "raw_output", "fields_extracted"},
                       !.error = error]

\* lines 483-490
Caught(error, llm_response) ==
    [NoEnvelope EXCEPT !.keys = {"success", "error", "raw_output", "fields_extracted"},
                       !.error = error, !.raw_output = llm_response]

\* lines 474-481
Succeeded(processed_data, validation_result, llm_response, invoice_text) ==
    [keys |-> {"success", "data", "validation", "raw_output", "extracted_text_length",
               "fields_extracted"},
     success |-> TRUE, error |-> "", data |-> processed_data,
     validation |-> validation_result, raw_output |-> llm_response,
     extracted_text_length |-> Len(invoice_text), fields_extracted |-> Len(processed_data)]

\* lines 299-305: filter_extracted_data returns its argument as it is
ReturnedUnfiltered(request_analysis) ==
    \/ request_analysis.extraction_type = "all"
    \/ Len(request_analysis.requested_fields) = 0 /\ ~request_analysis.is_specific_request

---------------------------------------------------------------------------
(* Inputs *)

NoStrings == [cleaned_response |-> "", json_str |-> "", fixed_json |-> ""]
NoCalls == [loads |-> 0, fix_common_json_issues |-> 0, generate_response |-> 0]

RECURSIVE SeqsUpTo(_, _)
\* the sequences over S of length 1..n
SeqsUpTo(S, n) ==
    IF n = 0 THEN {}
    ELSE LET shorter == SeqsUpTo(S, n - 1)
         IN  {<<x>> : x \in S} \cup shorter
             \cup {Append(q, x) : q \in {r \in shorter : Len(r) = n - 1}, x \in S}

RequestPhrases == {"all", "everything", "complete", "total", "extract the vendor name"}

Requests == {Join(q, " ") : q \in SeqsUpTo(RequestPhrases, MaxPhrases)}

FilterKeys == {"invoice_number", "Vendor Name", "net_worth", "total_amount"}
FilterValues == {NullV, IntV(100)}

Mappings(keys, values) ==
    {<<>>} \cup
    {m \in SeqsUpTo({[k |-> key, v |-> value] : key \in keys, value \in values}, MaxFields) :
        IsDict(m)}

---------------------------------------------------------------------------
(* The Field Filter called on a request and a raw mapping *)

InitFilter ==
    /\ pc = "filter"
    /\ request \in Requests
    /\ data \in Mappings(FilterKeys, FilterValues)
    /\ result = <<>>
    /\ prior = <<>>
    /\ strings = NoStrings
    /\ calls = NoCalls

Filter ==
    /\ pc = "filter"
    /\ result' = filter_extracted_data(data, request)
    /\ pc' = "filtered"
    /\ UNCHANGED <<request, data, prior, strings, calls>>

NextFilter == Filter

SpecFilter == InitFilter /\ [][NextFilter]_vars

\* C1: whenever the request contains "all", "everything" or "complete", the
\* Filter returns the raw mapping unchanged (same keys, same values).
C1_FilterIdentityOnAll ==
    (pc = "filtered" /\ ContainsAny(Lower(request), {"all", "everything", "complete"}))
        => DictEq(result, data)

---------------------------------------------------------------------------
(* The Validator called on a request and a mapping *)

ValidatePhrases == {"total", "amount", "vendor"}
ValidateRequests == {Join(q, " ") : q \in SeqsUpTo(ValidatePhrases, MaxPhrases)}

ValidateKeys == {"gross_total", "taxable_value", "taxable_amount", "email"}
ValidateValues == {NullV, IntV(0), IntV(100), FloatV(200, 0)}

InitValidate ==
    /\ pc = "validate"
    /\ request \in ValidateRequests
    /\ data \in Mappings(ValidateKeys, ValidateValues)
    /\ result = <<>>
    /\ prior = <<>>
    /\ strings = NoStrings
    /\ calls = NoCalls

Validate ==
    /\ pc = "validate"
    /\ result' = validate_extraction(data, request)
    /\ pc' = "validated"
    /\ UNCHANGED <<request, data, prior, strings, calls>>

NextValidate == Validate

SpecValidate == InitValidate /\ [][NextValidate]_vars

GrossStyleKey(key) == ContainsAny(Lower(key), {"gross_total", "gross_worth"})
TaxableStyleKey(key) == ContainsAny(Lower(key), {"taxable", "net_worth", "net_amount"})

\* the mapping holds a gross-style and a taxable-style amount, taxable > gross
TaxableAboveGross(m) ==
    \E i, j \in 1..Len(m) :
        /\ GrossStyleKey(m[i].k) /\ IsNumber(m[i].v)
        /\ TaxableStyleKey(m[j].k) /\ IsNumber(m[j].v)
        /\ NumLess(m[i].v, m[j].v)

\* C2: for every mapping with a gross_total-style and a taxable_value-style key
\* where taxable > gross, and every request, the report has is_valid = FALSE
\* and its errors hold an entry reporting the total/taxable mismatch.
C2_InversionIsAnError ==
    (pc = "validated" /\ TaxableAboveGross(data))
        => /\ ~result.is_valid
           /\ \E i \in 1..Len(result.errors) :
                  Contains(result.errors[i], "is less than taxable value")

\* C3: in every report, is_valid is FALSE if and only if errors is non-empty.
C3_InvalidIffErrors ==
    pc = "validated" => (~result.is_valid <=> Len(result.errors) # 0)

\* the mapping holds a taxable/net amount and no gross or total key
OnlyTaxableAmounts(m) ==
    /\ \E i \in 1..Len(m) : TaxableStyleKey(m[i].k) /\ IsNumber(m[i].v)
    /\ \A i \in 1..Len(m) : TaxableStyleKey(m[i].k) /\ IsNumber(m[i].v)

\* C4: when the request mentions a total and the mapping holds only a
\* taxable/net amount field and no gross/total key, the report warns that the
\* final total may be missing and is_valid stays TRUE with no errors.
C4_OnlyTaxableWarns ==
    (pc = "validated" /\ Contains(Lower(request), "total") /\ OnlyTaxableAmounts(data))
        => /\ \E i \in 1..Len(result.warnings) :
                  Contains(result.warnings[i], "final total (including taxes) may be missing")
           /\ result.is_valid
           /\ Len(result.errors) = 0

---------------------------------------------------------------------------
(* The Field Normalizer applied to a mapping, and again to its own output *)

NormalizeKeys == {"Total Amount", "total_amount", " Vendor-Name "}
NormalizeValues ==
    {NullV, IntV(5), FloatV(15, 1), ListV,
     StrV(""), StrV(" N/A "), StrV("none"), StrV("ACME "), StrV("unknown"),
     StrV(" $1,234.50 "), StrV("1.2.3"), StrV(" 12 "), StrV("1-2")}

ValuePieces == {" ", "$1", ".5", "-", "n/a", "x"}
PiecedValues == {StrV(Join(q, "")) : q \in SeqsUpTo(ValuePieces, MaxPieces)}

InitNormalize ==
    /\ pc = "normalize"
    /\ request = ""
    /\ data \in Mappings(NormalizeKeys, NormalizeValues)
                \cup {<<[k |-> key, v |-> value]>> : key \in NormalizeKeys, value \in PiecedValues}
    /\ result = <<>>
    /\ prior = <<>>
    /\ strings = NoStrings
    /\ calls = NoCalls

Normalize ==
    /\ pc = "normalize"
    /\ result' = post_process_data(data)
    /\ pc' = "normalized"
    /\ UNCHANGED <<request, data, prior, strings, calls>>

Renormalize ==
    /\ pc = "normalized"
    /\ prior' = result
    /\ result' = post_process_data(result)
    /\ pc' = "renormalized"
    /\ UNCHANGED <<request, data, strings, calls>>

NextNormalize == Normalize \/ Renormalize

SpecNormalize == InitNormalize /\ [][NextNormalize]_vars

\* C5: post_process_data is idempotent: applied to its own output it returns
\* that output again, with the same keys in the same order, the same values
\* and the same value types.
C5_NormalizeIdempotent == pc = "renormalized" => result = prior

\* a mapping whose first pass renamed a key, nulled a placeholder and coerced
\* an amount was normalised a second time
C5_Witness ==
    /\ pc = "renormalized"
    /\ \E i \in 1..Len(data) : data[i].k \notin DictKeys(prior)
    /\ \E i \in 1..Len(data) : data[i].v.t = "str" /\ data[i].v.s # ""
                                /\ DictGet(prior, CleanKey(data[i].k)) = NullV
    /\ \E i \in 1..Len(data) : data[i].v.t = "str"
                                /\ IsNumber(DictGet(prior, CleanKey(data[i].k)))

---------------------------------------------------------------------------
(* parse_llm_response called on an oracle response, step by step: the      *)
(* clean-up, the strict parse, the repair pass and the parse after repair  *)

ParseKeys == <<"a", "b", "c">>
ParseValues == {IntV(1), StrV("x"), StrV("}"), StrV("x:y")}

\* the objects an oracle writes: MaxMembers members at most
Objects ==
    UNION {{[i \in 1..n |-> [k |-> ParseKeys[i], v |-> values[i]]] :
                values \in [1..n -> ParseValues]} : n \in 1..MaxMembers}

\* how an oracle writes an object down
Styles == [quote : {"\"", "'"}, separator : {", ", ",\n"}, trailing_comma : BOOLEAN]

Written(value, style) ==
    IF value.t = "str" THEN style.quote \o value.s \o style.quote ELSE PyStr(value)

Render(members, style) ==
    "{" \o Join([i \in 1..Len(members) |->
                    style.quote \o members[i].k \o style.quote \o ": "
                    \o Written(members[i].v, style)], style.separator)
        \o (IF style.trailing_comma THEN "," ELSE "") \o "}"

Wraps == {"bare", "json fence", "fence", "prose"}

Wrapped(object_text, wrap) ==
    IF wrap = "json fence" THEN JsonFence \o "\n" \o object_text \o "\n" \o Fence
    ELSE IF wrap = "fence" THEN Fence \o "\n" \o object_text \o "\n" \o Fence
    ELSE IF wrap = "prose" THEN "Here is the data:\n" \o object_text
    ELSE object_text

NoJsonTexts == {"not json at all"}
OtherResponses == NoJsonTexts \cup {"", " ", "[1, 2,]", "[1]", "123", "\"x\"", "null", "{}"}

InitParse ==
    /\ pc = "parse"
    /\ \/ \E members \in Objects, style \in Styles, wrap \in Wraps :
            /\ data = members
            /\ request = Wrapped(Render(members, style), wrap)
       \/ /\ data = <<>>
          /\ request \in OtherResponses
    /\ result = NoOutcome
    /\ prior = <<>>
    /\ strings = NoStrings
    /\ calls = NoCalls

\* lines 210-255
Clean ==
    /\ pc = "parse"
    /\ IF Strip(request) = ""
       THEN /\ result' = Raised(MsgEmptyResponse)
            /\ pc' = "done"
            /\ UNCHANGED strings
       ELSE /\ strings' = Cleaned(CleanedResponse(request))
            /\ pc' = "loads"
            /\ UNCHANGED result
    /\ UNCHANGED <<request, data, prior, calls>>

\* lines 258-264, and 277-279 for a value that is not a dict
StrictParse ==
    /\ pc = "loads"
    /\ calls' = [calls EXCEPT !.loads = @ + 1]
    /\ result' = StrictOutcome(loads(strings.json_str))
    /\ pc' = IF result'.kind = "none" THEN "fix" ELSE "done"
    /\ UNCHANGED <<request, data, prior, strings>>

\* line 272
Repair ==
    /\ pc = "fix"
    /\ calls' = [calls EXCEPT !.fix_common_json_issues = @ + 1]
    /\ strings' = [strings EXCEPT !.fixed_json = fix_common_json_issues(strings.cleaned_response)]
    /\ pc' = "reloads"
    /\ UNCHANGED <<request, data, result, prior>>

\* lines 273-275
Retry ==
    /\ pc = "reloads"
    /\ calls' = [calls EXCEPT !.loads = @ + 1]
    /\ result' = RetryOutcome(loads(strings.fixed_json))
    /\ pc' = "done"
    /\ UNCHANGED <<request, data, prior, strings>>

NextParse == Clean \/ StrictParse \/ Repair \/ Retry

SpecParse == InitParse /\ [][NextParse]_vars

\* the response is a JSON object text without a markdown fence
ValidObjectText == ~Contains(request, Fence) /\ loads(request).ok /\ loads(request).v.t = "dict"

\* C6: for every syntactically valid JSON object text without markdown
\* fencing, multi-line texts and texts whose string values hold "{" or "}"
\* included, parse_llm_response returns a mapping equal to the strict JSON
\* parse of that strings.
C6_ValidObjectRoundTrip ==
    pc = "done" /\ ValidObjectText =>
        /\ result.kind = "returned"
        /\ result.value.t = "dict"
        /\ DictEq(result.value.items, loads(request).v.items)

\* the response is the object of data written with double-quoted strings and
\* a comma before the closing brace
TrailingCommaText ==
    /\ data \in Objects
    /\ \E style \in Styles :
          style.quote = "\"" /\ style.trailing_comma /\ request = Render(data, style)

\* the response is the object of data written with single-quoted strings
SingleQuotedText ==
    /\ data \in Objects
    /\ \E style \in Styles :
          style.quote = "'" /\ ~style.trailing_comma /\ request = Render(data, style)

\* C7: an object with double-quoted keys and a trailing comma before the
\* closing brace, or an object written with single-quoted strings, is parsed
\* after the one repair attempt and yields the intended mapping; a text with
\* no JSON at all is answered by the raised failure.
C7_RepairRecovers ==
    pc = "done" =>
        /\ TrailingCommaText \/ SingleQuotedText =>
              /\ calls.fix_common_json_issues = 1
              /\ result.kind = "returned"
              /\ result.value.t = "dict"
              /\ DictEq(result.value.items, data)
        /\ request \in NoJsonTexts => result.kind = "raised"

\* C8: parse_llm_response never returns a value that is not a mapping: a
\* final parsed value that is a list, a number, a string or any other
\* non-object is answered by the raised failure.
C8_OnlyMappingsReturned ==
    pc = "done" /\ result.kind = "returned" => result.value.t = "dict"

\* C9: on a non-empty response the repair pass runs at most once and the JSON
\* parse at most twice, the repair pass runs exactly when the strict parse
\* fails with a syntax error, and the call ends with a mapping or with a
\* raised failure.
C9_BoundedRetry ==
    /\ calls.fix_common_json_issues <= 1
    /\ calls.loads <= 2
    /\ pc = "done" /\ Strip(request) # "" =>
          /\ calls.fix_common_json_issues = 1 <=> ~loads(strings.json_str).ok
          /\ \/ result.kind = "raised"
             \/ result.kind = "returned" /\ result.value.t = "dict"

---------------------------------------------------------------------------
(* parse_invoice called on a PDF and a request, stage by stage.  The       *)
(* oracle is an outside collaborator: its call raises, returns nothing, or *)
(* returns a text.                                                         *)

NoPdf == [provided |-> FALSE, readable |-> FALSE, pages |-> <<>>]
Pdf(pages) == [provided |-> TRUE, readable |-> TRUE, pages |-> pages]

PageTextChoices == {"", " ", " \n", "A\n \n\nB  1"}

PdfFiles ==
    {NoPdf, [provided |-> TRUE, readable |-> FALSE, pages |-> <<>>], Pdf(<<>>)}
    \cup {Pdf(pages) : pages \in SeqsUpTo(PageTextChoices, MaxPages)}

InvoicePrompts == {"", " ", "total", "extract the vendor name",
                   "give me all of it now"}

OracleTexts ==
    {"{\"invoice_no\": \"A-1\", \"total\": \"$100\"}",
     "~~~\n{\"net_worth\": 200,\n\"total\": 100,}\n~~~",
     "{'vendor': 'n/a'}",
     "{\"email\": \"x\"}",
     "{}",
     "[1, 2,]",
     "[1]",
     "not json at all"}

\* str(e) of the exception the oracle raises: an exception may carry a
\* message or none, and str() of one that carries none is the empty string
OracleErrors == {MsgOracleRaised, ""}

OracleOutcomes ==
    {[raises |-> TRUE, message |-> m, response |-> NoneText] : m \in OracleErrors}
    \cup {[raises |-> FALSE, message |-> "", response |-> NoneText],
          [raises |-> FALSE, message |-> "", response |-> Text("")]}
    \cup {[raises |-> FALSE, message |-> "", response |-> Text(s)] : s \in OracleTexts}

NoInvoiceStrings == [invoice_text |-> "", llm_response |-> NoneText]

InitInvoice ==
    /\ pc = "parse_invoice"
    /\ request \in InvoicePrompts
    /\ data \in PdfFiles
    /\ result = NoEnvelope
    /\ prior = <<>>
    /\ strings = NoInvoiceStrings
    /\ calls = NoCalls

\* lines 421-431
CheckInputs ==
    /\ pc = "parse_invoice"
    /\ IF ~data.provided THEN result' = Refused(MsgNoPdf) /\ pc' = "returned"
       ELSE IF Strip(request) = "" THEN result' = Refused(MsgNoPrompt) /\ pc' = "returned"
       ELSE result' = result /\ pc' = "extract"
    /\ UNCHANGED <<request, data, prior, strings, calls>>

\* lines 434-441, and 483-490 when the extraction raises
ExtractText ==
    /\ pc = "extract"
    /\ \E extraction \in {extract_text_from_pdf(data)} :
          IF extraction.raised
          THEN /\ result' = Caught(extraction.message, NoneText)
               /\ pc' = "returned"
               /\ UNCHANGED strings
          ELSE IF Strip(extraction.invoice_text) = ""
          THEN /\ result' = Refused(MsgNoText)
               /\ pc' = "returned"
               /\ UNCHANGED strings
          ELSE /\ strings' = [strings EXCEPT !.invoice_text = extraction.invoice_text]
               /\ pc' = "generate"
               /\ UNCHANGED result
    /\ UNCHANGED <<request, data, prior, calls>>

\* QueryOracle with a retry: an empty response sends the call back to the
\* oracle once more
QueryOracleAgain ==
    /\ pc = "generate"
    /\ calls' = [calls EXCEPT !.generate_response = @ + 1]
    /\ \E outcome \in OracleOutcomes :
          IF outcome.raises
          THEN /\ result' = Caught(outcome.message, NoneText)
               /\ pc' = "returned"
               /\ UNCHANGED strings
          ELSE IF outcome.response.none \/ outcome.response.s = ""
          THEN IF calls.generate_response = 0
               THEN /\ pc' = "generate"
                    /\ UNCHANGED <<result, strings>>
               ELSE /\ result' = NoResponse
                    /\ pc' = "returned"
                    /\ strings' = [strings EXCEPT !.llm_response = outcome.response]
          ELSE /\ strings' = [strings EXCEPT !.llm_response = outcome.response]
               /\ pc' = "parse"
               /\ UNCHANGED result
    /\ UNCHANGED <<request, data, prior>>

\* lines 444-456, and 483-490 when the oracle raises
QueryOracle ==
    /\ pc = "generate"
    /\ calls' = [calls EXCEPT !.generate_response = @ + 1]
    /\ \E outcome \in OracleOutcomes :
          IF outcome.raises
          THEN /\ result' = Caught(outcome.message, NoneText)
               /\ pc' = "returned"
               /\ UNCHANGED strings
          ELSE IF outcome.response.none \/ outcome.response.s = ""
          THEN /\ result' = NoResponse
               /\ pc' = "returned"
               /\ strings' = [strings EXCEPT !.llm_response = outcome.response]
          ELSE /\ strings' = [strings EXCEPT !.llm_response = outcome.response]
               /\ pc' = "parse"
               /\ UNCHANGED result
    /\ UNCHANGED <<request, data, prior>>

\* line 460, and 483-490 when the parse raises
ParseResponse ==
    /\ pc = "parse"
    /\ \E parsed \in {parse_llm_response(strings.llm_response.s)} :
          IF parsed.kind = "raised"
          THEN /\ result' = Caught(parsed.message, strings.llm_response)
               /\ pc' = "returned"
               /\ UNCHANGED prior
          ELSE /\ prior' = parsed.value
               /\ pc' = "filter"
               /\ UNCHANGED result
    /\ UNCHANGED <<request, data, strings, calls>>

\* FilterData going on to the next stage after the filter raised
FilterDataContinuing ==
    /\ pc = "filter"
    /\ IF prior.t = "dict"
       THEN /\ prior' = JsonObject(filter_extracted_data(prior.items, request))
            /\ pc' = "post_process"
            /\ UNCHANGED result
       ELSE IF ReturnedUnfiltered(analyze_user_request(request))
       THEN /\ pc' = "post_process"
            /\ UNCHANGED <<prior, result>>
       ELSE /\ result' = Caught(MsgNoItems, strings.llm_response)
            /\ pc' = "post_process"
            /\ UNCHANGED prior
    /\ UNCHANGED <<request, data, strings, calls>>

\* line 464, and 483-490 when extracted_data has no items()
FilterData ==
    /\ pc = "filter"
    /\ IF prior.t = "dict"
       THEN /\ prior' = JsonObject(filter_extracted_data(prior.items, request))
            /\ pc' = "post_process"
            /\ UNCHANGED result
       ELSE IF ReturnedUnfiltered(analyze_user_request(request))
       THEN /\ pc' = "post_process"
            /\ UNCHANGED <<prior, result>>
       ELSE /\ result' = Caught(MsgNoItems, strings.llm_response)
            /\ pc' = "returned"
            /\ UNCHANGED prior
    /\ UNCHANGED <<request, data, strings, calls>>

\* line 468, and 483-490 when filtered_data has no items()
PostProcess ==
    /\ pc = "post_process"
    /\ IF prior.t = "dict"
       THEN /\ prior' = JsonObject(post_process_data(prior.items))
            /\ pc' = "validate"
            /\ UNCHANGED result
       ELSE /\ result' = Caught(MsgNoItems, strings.llm_response)
            /\ pc' = "returned"
            /\ UNCHANGED prior
    /\ UNCHANGED <<request, data, strings, calls>>

\* ValidateData turning a report with is_valid = FALSE into a failure
ValidateDataStrictly ==
    /\ pc = "validate"
    /\ \E report \in {validate_extraction(prior.items, request)} :
          IF report.is_valid
          THEN result' = Succeeded(prior.items, report, strings.llm_response,
                                   strings.invoice_text)
          ELSE result' = Caught(MsgNoData, strings.llm_response)
    /\ pc' = "returned"
    /\ UNCHANGED <<request, data, prior, strings, calls>>

\* lines 472-481
ValidateData ==
    /\ pc = "validate"
    /\ result' = Succeeded(prior.items, validate_extraction(prior.items, request),
                           strings.llm_response, strings.invoice_text)
    /\ pc' = "returned"
    /\ UNCHANGED <<request, data, prior, strings, calls>>

NextInvoice ==
    \/ CheckInputs
    \/ ExtractText
    \/ QueryOracle
    \/ ParseResponse
    \/ FilterData
    \/ PostProcess
    \/ ValidateData

SpecInvoice == InitInvoice /\ [][NextInvoice]_vars

\* the PDF was read and has pages, none of which yields a character that is
\* not white space
NoReadableText ==
    /\ data.provided
    /\ data.readable
    /\ Len(data.pages) > 0
    /\ \A i \in 1..Len(data.pages) : Strip(data.pages[i]) = ""

\* C10: when the document yields no readable text, parse_invoice returns a
\* result with success = false whose error is the message "No text could be
\* extracted..." and the oracle is never called during that invocation.
C10_NoTextNoOracle ==
    pc = "returned" /\ Strip(request) # "" /\ NoReadableText =>
        /\ ~result.success
        /\ StartsWith(result.error, "No text could be extracted")
        /\ calls.generate_response = 0

\* every entry of filtered is an entry of the raw mapping, and filtered holds
\* no key twice
SubMapping(filtered, raw) ==
    /\ IsDict(filtered)
    /\ \A i \in 1..Len(filtered) :
          \E j \in 1..Len(raw) : raw[j].k = filtered[i].k /\ raw[j].v = filtered[i].v

FilterKeepsRawEntries ==
    pc = "filtered" =>
        /\ SubMapping(result, data)
        /\ Len(data) > 0 => Len(result) > 0

\* C29: for every request and raw mapping the result of
\* filter_extracted_data is a sub-mapping of the raw mapping, every key with
\* its raw value, it is non-empty whenever the raw mapping is, and the raw
\* mapping is left as it was.
C29_FilterReturnsSubMapping == []FilterKeepsRawEntries /\ [][data' = data]_vars

\* the filter kept some entries of the raw mapping and left others out
C29_Witness ==
    /\ pc = "filtered"
    /\ Len(result) > 0
    /\ Len(result) < Len(data)

---------------------------------------------------------------------------
(* The Field Filter, the Normalizer and the Validator in the order of
   parse_invoice, lines 464-472, on a request and a raw mapping *)

InvoiceRequest == "Extract the invoice number and total."
InvoiceKeys == <<"invoice_number", "net_worth", "vat", "gross_worth">>

InvoiceEntries ==
    {[k |-> "invoice_number", v |-> StrV("INV-001")],
     [k |-> "net_worth", v |-> IntV(192)],
     [k |-> "vat", v |-> IntV(19)],
     [k |-> "gross_worth", v |-> IntV(212)],
     [k |-> "gross_worth", v |-> IntV(100)]}

\* the mappings that hold the four keys, in every order
InvoiceMappings ==
    {m \in [1..Len(InvoiceKeys) -> InvoiceEntries] : IsDict(m)}

ReduceRequests ==
    {"total", "total amount", "vendor", "extract the vendor name", "find the total due"}
ReduceKeys == {"gross_total", "total", "subtotal", "net_worth", "invoice_no"}
ReduceValues == {NullV, IntV(100)}

ReduceCases ==
    {[user_prompt |-> InvoiceRequest, extracted_data |-> m] : m \in InvoiceMappings}
    \cup {[user_prompt |-> r, extracted_data |-> m] :
              r \in ReduceRequests, m \in Mappings(ReduceKeys, ReduceValues)}

NoReduction == [filtered_data |-> <<>>, processed_data |-> <<>>, validation |-> EmptyReport]

InitReduce ==
    /\ pc = "filter"
    /\ \E case \in ReduceCases :
          /\ request = case.user_prompt
          /\ data = case.extracted_data
    /\ result = NoReduction
    /\ prior = <<>>
    /\ strings = NoStrings
    /\ calls = NoCalls

\* line 464
ReduceFilter ==
    /\ pc = "filter"
    /\ result' = [result EXCEPT !.filtered_data = filter_extracted_data(data, request)]
    /\ pc' = "post_process"
    /\ UNCHANGED <<request, data, prior, strings, calls>>

\* line 468
ReducePostProcess ==
    /\ pc = "post_process"
    /\ result' = [result EXCEPT !.processed_data = post_process_data(result.filtered_data)]
    /\ pc' = "validate"
    /\ UNCHANGED <<request, data, prior, strings, calls>>

\* line 472
ReduceValidate ==
    /\ pc = "validate"
    /\ result' = [result EXCEPT !.validation = validate_extraction(result.processed_data, request)]
    /\ pc' = "validated"
    /\ UNCHANGED <<request, data, prior, strings, calls>>

NextReduce ==
    \/ ReduceFilter
    \/ ReducePostProcess
    \/ ReduceValidate

SpecReduce == InitReduce /\ [][NextReduce]_vars

\* the request and the mapping of the invoice example, gross above net
InvoiceExample ==
    /\ request = InvoiceRequest
    /\ DictKeys(data) = SeqToSet(InvoiceKeys)
    /\ NumLess(DictGet(data, "net_worth"), DictGet(data, "gross_worth"))

ReportsInversion(messages) ==
    \E i \in 1..Len(messages) : Contains(messages[i], "is less than taxable value")

\* C15: for the request "Extract the invoice number and total." and a mapping
\* holding invoice_number, net_worth, vat and gross_worth with gross_worth
\* above net_worth, the filter returns exactly gross_worth and invoice_number
\* with the mapping's values, and the validation of the normalised result
\* reports no total/taxable inversion.
C15_InvoiceExampleReduced ==
    pc = "validated" /\ InvoiceExample =>
        /\ DictKeys(result.filtered_data) = {"gross_worth", "invoice_number"}
        /\ Len(result.filtered_data) = Cardinality(DictKeys(result.filtered_data))
        /\ \A key \in DictKeys(result.filtered_data) :
              DictGet(result.filtered_data, key) = DictGet(data, key)
        /\ ~ReportsInversion(result.validation.errors)
        /\ ~ReportsInversion(result.validation.warnings)

\* the example mapping with net_worth ahead of gross_worth went through the
\* filter, the normaliser and the validator
C15_Witness ==
    /\ pc = "validated"
    /\ InvoiceExample
    /\ data[1].k = "net_worth"
    /\ Len(result.processed_data) = Len(result.filtered_data)
    /\ result.validation.summary.present

\* the request asks for a total and names no taxable, net or subtotal amount
AsksForTotalOnly(user_prompt_lower) ==
    /\ Contains(user_prompt_lower, "total")
    /\ ~ContainsAny(user_prompt_lower, {"taxable", "net", "subtotal"})

\* C16: for every request that contains "total" and names no taxable, net or
\* subtotal amount, and every raw mapping, filter_extracted_data returns no
\* key containing "taxable", "net_worth", "net_amount" or "subtotal".
C16_NoPreTaxKeyForTotal ==
    pc # "filter" /\ AsksForTotalOnly(Lower(request)) =>
        \A i \in 1..Len(result.filtered_data) :
            ~ContainsAny(Lower(result.filtered_data[i].k), filter_avoid)

\* the place in total_priority of the first entry the key contains, 0 for none
PriorityOf(key_lower) ==
    IF ContainsAny(key_lower, SeqToSet(total_priority))
    THEN CHOOSE j \in 1..Len(total_priority) :
            /\ Contains(key_lower, total_priority[j])
            /\ \A h \in 1..(j - 1) : ~Contains(key_lower, total_priority[h])
    ELSE 0

\* the keys of the mapping that are candidates for the total
TotalCandidates(m) ==
    {key \in DictKeys(m) :
        PriorityOf(Lower(key)) # 0 /\ ~ContainsAny(Lower(key), filter_avoid)}

KeepsEarliestPriority(candidates, kept) ==
    /\ Cardinality(kept) = 1
    /\ \A key \in kept : \A other \in candidates :
          PriorityOf(Lower(key)) <= PriorityOf(Lower(other))

\* C17: when the request mentions a total and the raw mapping holds several
\* total candidates, the filter keeps exactly one of them, the one matching
\* the earliest entry of total_priority, whatever the order of the keys.
C17_EarliestPriorityKept ==
    pc # "filter" /\ Contains(Lower(request), "total")
                  /\ Cardinality(TotalCandidates(data)) > 1 =>
        KeepsEarliestPriority(TotalCandidates(data),
                              TotalCandidates(data) \cap DictKeys(result.filtered_data))

\* steps 1 and 2 of the filter select no field of the mapping
SelectsNothing(m, request_analysis, user_prompt_lower) ==
    /\ ContainsAny(user_prompt_lower, filter_total_terms) => BestTotal(m, 1, 0) = 0
    /\ \A i \in 1..Len(m) :
          ~IncludeField(m[i].k, request_analysis.requested_fields, user_prompt_lower)

\* the filter is applied, and finds nothing in a mapping that is not empty
NothingSelected(m, request_analysis, user_prompt_lower) ==
    /\ Len(m) > 0
    /\ ~ReturnedUnfiltered(request_analysis)
    /\ SelectsNothing(m, request_analysis, user_prompt_lower)

IsFirstNonNull(m, filtered) ==
    \E i \in 1..Len(m) :
        /\ m[i].v # NullV
        /\ \A j \in 1..(i - 1) : m[j].v = NullV
        /\ filtered = <<m[i]>>

\* C18 as stated: when the filter is applied and steps 1-2 select nothing
\* from a non-empty mapping, a request of three words or fewer gets exactly
\* the first entry whose value is not null and a longer request gets the
\* whole mapping unchanged.
C18_FallbackAsStated ==
    pc # "filter" /\ NothingSelected(data, analyze_user_request(request), Lower(request)) =>
        IF Len(SplitWords(request)) <= VeryShortPromptWords
        THEN IsFirstNonNull(data, result.filtered_data)
        ELSE result.filtered_data = data

\* C18 amended: as stated, except that a request of three words or fewer
\* gets the whole mapping unchanged when every value of the mapping is null.
C18_Fallback ==
    pc # "filter" /\ NothingSelected(data, analyze_user_request(request), Lower(request)) =>
        IF Len(SplitWords(request)) <= VeryShortPromptWords
              /\ \E i \in 1..Len(data) : data[i].v # NullV
        THEN IsFirstNonNull(data, result.filtered_data)
        ELSE result.filtered_data = data

\* a short request found nothing in a mapping whose first value is null and
\* got the second entry alone
C18_Witness ==
    /\ pc = "post_process"
    /\ Len(SplitWords(request)) <= VeryShortPromptWords
    /\ Len(data) > 1
    /\ data[1].v = NullV
    /\ NothingSelected(data, analyze_user_request(request), Lower(request))
    /\ result.filtered_data = <<data[Len(data)]>>

---------------------------------------------------------------------------
(* The Request Classifier called on a request *)

ClassifyPhrases ==
    {"all", "the entire invoice", "total", "extract", "vendor name", "please",
     "show me this one", "read this for me now"}

ClassifyRequests == {Join(q, " ") : q \in SeqsUpTo(ClassifyPhrases, MaxPhrases)}

NoAnalysis == [requested_fields |-> <<>>, is_specific_request |-> FALSE, extraction_type |-> ""]

InitClassify ==
    /\ pc = "analyze"
    /\ request \in ClassifyRequests
    /\ data = <<>>
    /\ result = NoAnalysis
    /\ prior = <<>>
    /\ strings = NoStrings
    /\ calls = NoCalls

Analyze ==
    /\ pc = "analyze"
    /\ result' = analyze_user_request(request)
    /\ pc' = "analyzed"
    /\ UNCHANGED <<request, data, prior, strings, calls>>

NextClassify == Analyze

SpecClassify == InitClassify /\ [][NextClassify]_vars

\* C19: for every request whose lower-cased text contains "all",
\* "everything", "complete", "full" or "entire", analyze_user_request returns
\* the extraction type "all", whatever else the request holds and however
\* many words it has.
C19_AllIndicatorForcesAll ==
    pc = "analyzed" /\ ContainsAny(Lower(request), {"all", "everything", "complete", "full", "entire"}) =>
        result.extraction_type = "all"

\* the request matches no field category: no keyword of any category and
\* none of the total terms occurs in it
NoCategory(user_prompt_lower) ==
    /\ \A i \in 1..Len(field_keywords) :
          ~ContainsAny(user_prompt_lower, SeqToSet(field_keywords[i][2]))
    /\ ~ContainsAny(user_prompt_lower, {"total cost", "total amount", "total", "final total"})

NoIndicator(user_prompt_lower) ==
    /\ ~ContainsAny(user_prompt_lower, {"only", "just", "extract", "find", "get", "what is"})
    /\ ~ContainsAny(user_prompt_lower, {"all", "everything", "complete", "full", "entire"})

TieBreak(user_prompt_lower, words, analysis) ==
    /\ NoCategory(user_prompt_lower) /\ words <= 5 =>
          /\ analysis.is_specific_request
          /\ analysis.extraction_type = "specific"
    /\ NoCategory(user_prompt_lower) /\ NoIndicator(user_prompt_lower) /\ words > 5 =>
          /\ analysis.extraction_type = "general"
          /\ analysis.requested_fields = <<>>
          /\ ~analysis.is_specific_request

\* C20: a request that matches no field category and has five words or fewer
\* is classified is_specific = TRUE with type "specific"; a request that
\* matches no field category, no specific indicator and no all indicator and
\* has more than five words is classified "general" with no requested
\* fields and is_specific = FALSE.
C20_ShortRequestsAreSpecific ==
    pc = "analyzed" => TieBreak(Lower(request), Len(SplitWords(request)), result)

\* a request of exactly five words that matches no category and no
\* indicator was classified
C20_Witness ==
    /\ pc = "analyzed"
    /\ Len(SplitWords(request)) = 5
    /\ NoCategory(Lower(request))
    /\ NoIndicator(Lower(request))
    /\ result.extraction_type = "specific"

\* the numeric parse of lines 400-405 fails on the trimmed text: what is left
\* of it after the strip of line 400 is no number, or nothing at all
ParseFails(text, numeric_value) ==
    IF Contains(numeric_value, ".") THEN ~ParseFloat(numeric_value).ok
    ELSE ~ParseInt(numeric_value).ok

\* entry i of the mapping is a string under an amount-like key that is no
\* placeholder and does not parse; no other entry has the same clean key
UnparsedAmount(m, i) ==
    /\ m[i].v.t = "str"
    /\ Strip(m[i].v.s) # ""
    /\ Lower(Strip(m[i].v.s)) \notin {"n/a", "na", "none", "null"}
    /\ ContainsAny(CleanKey(m[i].k), {"amount", "total", "price", "cost", "tax"})
    /\ ParseFails(Strip(m[i].v.s), KeepChars(Strip(m[i].v.s), {".", "-"}))
    /\ \A j \in 1..Len(m) : CleanKey(m[j].k) = CleanKey(m[i].k) => j = i

\* C21: in post_process_data a string under an amount-like key that is no
\* placeholder and whose numeric parse fails (also when the strip leaves no
\* digit) comes out as the original trimmed string, never null or a number.
C21_UnparsedAmountKept ==
    pc = "normalized" =>
        \A i \in 1..Len(data) :
            UnparsedAmount(data, i) =>
                DictGet(result, CleanKey(data[i].k)) = StrV(Strip(data[i].v.s))

FinalTotalStyleKey(key) == ContainsAny(Lower(key), {"total", "grand", "final", "gross"})

NamesField(messages, field_name) ==
    \E i \in 1..Len(messages) : Contains(messages[i], field_name)

RecordsFinalTotal(field_validations, field_name) ==
    /\ DictHas(field_validations, field_name)
    /\ StartsWith(DictGet(field_validations, field_name).message,
                  "Correctly identified as final total")

AmountVerdict(field_name, report) ==
    IF TaxableStyleKey(field_name)
    THEN ~report.is_valid /\ NamesField(report.errors, field_name)
    ELSE FinalTotalStyleKey(field_name) =>
            /\ ~NamesField(report.errors, field_name)
            /\ RecordsFinalTotal(report.field_validations, field_name)

\* C22: for every request mentioning "total" and every field holding a
\* number, a key with taxable, net_worth or net_amount gets an error and the
\* report is_valid = FALSE; a key with total, grand, final or gross gets no
\* error and the success message in its field_validations entry.
C22_PreTaxErrorFinalTotalSuccess ==
    pc = "validated" /\ Contains(Lower(request), "total") =>
        \A i \in 1..Len(data) :
            IsNumber(data[i].v) => AmountVerdict(data[i].k, result)

\* the fields the heuristic of lines 193-214 ranks: numbers under a key with
\* amount, total, cost, price or worth
RankedAmounts(m) ==
    {i \in 1..Len(m) :
        /\ ContainsAny(Lower(m[i].k), {"amount", "total", "cost", "price", "worth"})
        /\ IsNumber(m[i].v)}

HeuristicApplies(m, user_prompt_lower) ==
    /\ ContainsAny(user_prompt_lower, {"total", "amount", "cost"})
    /\ Cardinality(RankedAmounts(m)) > 1
    /\ \A i \in 1..Len(m) : ~Contains(Lower(m[i].k), "email")

\* C23: for every mapping with two or more numeric amount fields, zero
\* values included, the tax-rate heuristic adds no error to the report and
\* the per-field checks still run for every field.
C23_HeuristicOnlyRecommends ==
    pc = "validated" /\ HeuristicApplies(data, Lower(request)) =>
        /\ \A i \in 1..Len(result.errors) : ~Contains(result.errors[i], "Validation error")
        /\ \A i \in 1..Len(data) : DictHas(result.field_validations, data[i].k)

SummaryAgrees(m, report) ==
    /\ report.summary.present
    /\ report.summary.error_count = Len(report.errors)
    /\ report.summary.warning_count = Len(report.warnings)
    /\ report.summary.recommendation_count = Len(report.recommendations)
    /\ report.summary.total_fields = Len(m)
    /\ report.summary.valid_fields <= report.summary.total_fields
    /\ DictKeys(report.field_validations) = DictKeys(m)
    /\ Len(report.field_validations) = Len(m)

\* C24: every report of validate_extraction, also for an empty mapping,
\* carries a summary whose counts are the lengths of errors, warnings and
\* recommendations, whose total_fields is the number of fields, with
\* valid_fields <= total_fields, and field_validations holds one entry per
\* field.
C24_SummaryInEveryReport ==
    pc = "validated" => SummaryAgrees(data, result)

\* the causes for which a report may say is_valid = FALSE: an empty mapping,
\* a value under an email key that is not a valid address, a value under an
\* amount key that validate_amount rejects, a pre-tax key holding a value
\* while the request says "total", and a largest taxable amount above the
\* largest total
InvalidatingCause(m, user_prompt_lower) ==
    \/ Len(m) = 0
    \/ \E i \in 1..Len(m) :
          /\ m[i].v # NullV
          /\ \/ Contains(Lower(m[i].k), "email") /\ validate_email(m[i].v) # "valid"
             \/ ContainsAny(Lower(m[i].k), field_amount_terms) /\ ~validate_amount(m[i].v)
             \/ TaxableStyleKey(m[i].k) /\ Contains(user_prompt_lower, "total")
    \/ /\ ContainsAny(user_prompt_lower, accuracy_request_terms)
       /\ \E i \in AmountIndexes(m, {"taxable"}) :
             /\ AmountIndexes(m, {"total"}) # {}
             /\ \A j \in AmountIndexes(m, {"total"}) :
                   NumLess(AmountOf(m[j].v), AmountOf(m[i].v))

OnlyListedCauses(m, user_prompt_lower, report) ==
    /\ ~report.is_valid => InvalidatingCause(m, user_prompt_lower)
    /\ \A i \in 1..Len(report.errors) :
          /\ ~Contains(report.errors[i], "phone")
          /\ ~Contains(report.errors[i], "date")
          /\ ~Contains(report.errors[i], "invoice number")
          /\ ~Contains(report.errors[i], "missing field")

\* C30: a phone, date or invoice-number value failing its format check and
\* a requested field found missing add only warnings, never an error, and
\* never make is_valid FALSE; is_valid is FALSE only for an invalid email,
\* an unparseable amount, a pre-tax key under a total request, an empty
\* mapping or a total below the taxable amount.
C30_OnlyListedCausesInvalidate ==
    pc = "validated" => OnlyListedCauses(data, Lower(request), result)

\* C11: parse_invoice never raises: whatever the inputs, the text extraction
\* and the oracle do, it returns an envelope, and every envelope with
\* success = false carries a non-empty error string.
C11_FailureCarriesError ==
    pc = "returned" =>
        /\ "success" \in result.keys
        /\ (~result.success => "error" \in result.keys /\ result.error # "")

\* C12: within one parse_invoice call the oracle is invoked at most once, and
\* exactly once in every call that returns success = true; the call site is
\* never reached again after an invocation, so a failed, empty or malformed
\* response ends the call and is not followed by a second invocation.
C12_OracleCalledOnce ==
    /\ calls.generate_response <= 1
    /\ (pc = "generate" => calls.generate_response = 0)
    /\ (pc = "returned" /\ result.success => calls.generate_response = 1)

\* a malformed oracle response ended the call after the one invocation
C12_Witness ==
    /\ pc = "returned"
    /\ ~result.success
    /\ ~result.raw_output.none
    /\ calls.generate_response = 1

\* the fields of the oracle's object that the request names in so many words
AskedFor(object, user_prompt_lower) ==
    {key \in DictKeys(object) : Contains(user_prompt_lower, key)}

HoldsAsGiven(object, asked, envelope) ==
    /\ envelope.success
    /\ \A key \in asked :
          /\ DictHas(envelope.data, key)
          /\ DictGet(envelope.data, key) = DictGet(object, key)

AnswersAsGiven(parsed, user_prompt_lower, envelope) ==
    parsed.ok /\ parsed.v.t = "dict" =>
        \/ AskedFor(parsed.v.items, user_prompt_lower) = {}
        \/ HoldsAsGiven(parsed.v.items, AskedFor(parsed.v.items, user_prompt_lower), envelope)

\* C13: when the text extraction yields non-empty text and the oracle returns
\* a valid JSON object holding fields the request asks for, parse_invoice
\* returns success = true and data holds each of those fields with exactly
\* the value the oracle gave.
C13_RequestedFieldsAsGiven ==
    pc = "returned" /\ strings.invoice_text # "" /\ ~strings.llm_response.none =>
        AnswersAsGiven(loads(strings.llm_response.s), Lower(request), result)

MsgCouldNotExtract == "Could not extract any text"

\* C14: text extraction on a PDF that has pages but no readable text does not
\* raise: once it has run, the text it returned contains the message
\* "Could not extract any text".
C14_NoTextMessageReturned ==
    NoReadableText /\ Strip(request) # "" /\ pc \notin {"parse_invoice", "extract"} =>
        Contains(strings.invoice_text, MsgCouldNotExtract)

\* the call went as far as parsing the oracle's text
OracleAnswered == strings.invoice_text # "" /\ ~strings.llm_response.none
                      /\ strings.llm_response.s # ""

ParsedToMapping(outcome) == outcome.kind = "returned" /\ outcome.value.t = "dict"

SucceedsIff(parsed_to_mapping, envelope) ==
    /\ parsed_to_mapping =>
          /\ envelope.success
          /\ {"data", "validation"} \subseteq envelope.keys
    /\ ~parsed_to_mapping => ~envelope.success

\* C25: whenever the oracle's output parses to a mapping, parse_invoice
\* returns success = true with data and a validation report, also when the
\* report has is_valid = FALSE; success = false is returned only when the
\* parse produced no mapping.
C25_ValidationNeverFails ==
    pc = "returned" /\ OracleAnswered =>
        SucceedsIff(ParsedToMapping(parse_llm_response(strings.llm_response.s)), result)

\* a call succeeded with data whose validation report is not valid
C25_Witness ==
    /\ pc = "returned"
    /\ result.success
    /\ Len(result.data) > 0
    /\ ~result.validation.is_valid

\* C26: a failure envelope produced after the oracle returned text holds
\* that text unchanged in raw_output; a failure envelope produced before
\* the oracle was called, or when it gave no text, has raw_output absent or
\* null.
C26_RawOutputIsOracleText ==
    pc = "returned" /\ ~result.success =>
        IF OracleAnswered
        THEN "raw_output" \in result.keys /\ result.raw_output = strings.llm_response
        ELSE "raw_output" \notin result.keys \/ result.raw_output.none

\* a response that would not parse came back as raw_output of the failure
C26_Witness ==
    /\ pc = "returned"
    /\ ~result.success
    /\ calls.generate_response = 1
    /\ ~result.raw_output.none
    /\ result.raw_output.s = "not json at all"

\* the stages of parse_invoice in the order of lines 421-481; the prompt
\* synthesis of line 445 and the oracle call of line 449 are the stage
\* "generate"
Stages ==
    <<"parse_invoice", "extract", "generate", "parse", "filter", "post_process",
      "validate", "returned">>

StageOf(position) == CHOOSE i \in 1..Len(Stages) : Stages[i] = position

\* a step goes on to the next stage, or returns; it returns whenever it
\* wrote an envelope
InOrder ==
    /\ pc' = "returned" \/ StageOf(pc') = StageOf(pc) + 1
    /\ StageOf(pc') > StageOf(pc)
    /\ result' # result => pc' = "returned"

DataIsValidated ==
    pc = "returned" /\ result.success => result.data = prior.items

\* C27: in every parse_invoice call the stages run in the fixed order prompt
\* synthesis and oracle call, response parsing, filtering, normalisation,
\* validation, each at most once and none after a stage failed; in a
\* successful envelope data is the normalised mapping given to the validator.
C27_StagesInOrder == [][InOrder]_vars /\ []DataIsValidated

\* a call went through every stage and returned the normalised mapping
C27_Witness ==
    /\ pc = "returned"
    /\ result.success
    /\ Len(result.data) > 0
    /\ result.data = prior.items
    /\ calls.generate_response = 1

---------------------------------------------------------------------------
(* Two calls of parse_invoice whose steps interleave. Every name of
   parse_invoice is a local of the call (lines 415-472) and the parser, with
   its field_keywords, is built by the call itself (line 418): a call's frame
   holds them all. *)

Calls == {1, 2}

\* one place for the mapping of every call, as a module-level name would be
SharedSlot(call) == 1

\* the place of a call's locals: the call's own frame
Slot(call) == call

ConcurrentPdfs == {Pdf(<<"A\n \n\nB  1">>), Pdf(<<"">>)}
ConcurrentPrompts == {"total", "extract the vendor name"}
ConcurrentOutcomes ==
    {[raises |-> TRUE, message |-> MsgOracleRaised, response |-> NoneText],
     [raises |-> FALSE, message |-> "", response |-> Text("{\"invoice_no\": \"A-1\", \"total\": \"$100\"}")],
     [raises |-> FALSE, message |-> "", response |-> Text("{'vendor': 'n/a'}")],
     [raises |-> FALSE, message |-> "", response |-> Text("[1, 2,]")]}

\* the locals of a call that has not started: line 415 and the arguments
Frame(pdf_file, user_prompt, oracle) ==
    [pc |-> "parse_invoice", pdf_file |-> pdf_file, user_prompt |-> user_prompt,
     oracle |-> oracle, result |-> NoEnvelope, mapping |-> NullV, invoice_text |-> "",
     llm_response |-> NoneText, generate_response |-> 0]

Return(frame, envelope) == [frame EXCEPT !.pc = "returned", !.result = envelope]

\* lines 421-431
CheckedInputs(frame) ==
    IF ~frame.pdf_file.provided THEN Return(frame, Refused(MsgNoPdf))
    ELSE IF Strip(frame.user_prompt) = "" THEN Return(frame, Refused(MsgNoPrompt))
    ELSE [frame EXCEPT !.pc = "extract"]

\* lines 434-441
ExtractedText(frame, extraction) ==
    IF extraction.raised THEN Return(frame, Caught(extraction.message, NoneText))
    ELSE IF Strip(extraction.invoice_text) = "" THEN Return(frame, Refused(MsgNoText))
    ELSE [frame EXCEPT !.pc = "generate", !.invoice_text = extraction.invoice_text]

\* lines 444-456
Queried(frame, outcome) ==
    IF outcome.raises
    THEN Return([frame EXCEPT !.generate_response = @ + 1],
                Caught(outcome.message, NoneText))
    ELSE IF outcome.response.none \/ outcome.response.s = ""
    THEN Return([frame EXCEPT !.generate_response = @ + 1, !.llm_response = outcome.response],
                NoResponse)
    ELSE [frame EXCEPT !.generate_response = @ + 1, !.llm_response = outcome.response,
                       !.pc = "parse"]

\* line 460
ParsedResponse(frame, parsed) ==
    IF parsed.kind = "raised" THEN Return(frame, Caught(parsed.message, frame.llm_response))
    ELSE [frame EXCEPT !.mapping = parsed.value, !.pc = "filter"]

\* line 464
FilteredData(frame) ==
    IF frame.mapping.t = "dict"
    THEN [frame EXCEPT !.mapping = JsonObject(filter_extracted_data(frame.mapping.items,
                                                                     frame.user_prompt)),
                       !.pc = "post_process"]
    ELSE IF ReturnedUnfiltered(analyze_user_request(frame.user_prompt))
    THEN [frame EXCEPT !.pc = "post_process"]
    ELSE Return(frame, Caught(MsgNoItems, frame.llm_response))

\* line 468
PostProcessed(frame) ==
    IF frame.mapping.t = "dict"
    THEN [frame EXCEPT !.mapping = JsonObject(post_process_data(frame.mapping.items)),
                       !.pc = "validate"]
    ELSE Return(frame, Caught(MsgNoItems, frame.llm_response))

\* lines 472-481
ValidatedData(frame) ==
    Return(frame, Succeeded(frame.mapping.items,
                            validate_extraction(frame.mapping.items, frame.user_prompt),
                            frame.llm_response, frame.invoice_text))

\* one step of a call on its locals
CallStep(frame) ==
    CASE frame.pc = "parse_invoice" -> CheckedInputs(frame)
      [] frame.pc = "extract" -> ExtractedText(frame, extract_text_from_pdf(frame.pdf_file))
      [] frame.pc = "generate" -> Queried(frame, frame.oracle)
      [] frame.pc = "parse" -> ParsedResponse(frame, parse_llm_response(frame.llm_response.s))
      [] frame.pc = "filter" -> FilteredData(frame)
      [] frame.pc = "post_process" -> PostProcessed(frame)
      [] frame.pc = "validate" -> ValidatedData(frame)
      [] OTHER -> frame

RECURSIVE RunAlone(_)
\* the envelope of a call whose steps run with no other call in between
RunAlone(frame) ==
    IF frame.pc = "returned" THEN frame.result ELSE RunAlone(CallStep(frame))

\* the locals of a call as the variables hold them
Load(call) ==
    [pc |-> pc[call], pdf_file |-> data[call], user_prompt |-> request[call],
     oracle |-> strings[call].oracle, result |-> result[call],
     mapping |-> prior[Slot(call)], invoice_text |-> strings[call].invoice_text,
     llm_response |-> strings[call].llm_response,
     generate_response |-> calls[call].generate_response]

Store(call, frame) ==
    /\ pc' = [pc EXCEPT ![call] = frame.pc]
    /\ result' = [result EXCEPT ![call] = frame.result]
    /\ prior' = [prior EXCEPT ![Slot(call)] = frame.mapping]
    /\ strings' = [strings EXCEPT ![call].invoice_text = frame.invoice_text,
                                  ![call].llm_response = frame.llm_response]
    /\ calls' = [calls EXCEPT ![call].generate_response = frame.generate_response]
    /\ UNCHANGED <<request, data>>

InitConcurrent ==
    /\ pc = [call \in Calls |-> "parse_invoice"]
    /\ request \in [Calls -> ConcurrentPrompts]
    /\ data \in [Calls -> ConcurrentPdfs]
    /\ result = [call \in Calls |-> NoEnvelope]
    /\ prior = [call \in Calls |-> NullV]
    /\ \E oracle \in [Calls -> ConcurrentOutcomes] :
          strings = [call \in Calls |->
                        [invoice_text |-> "", llm_response |-> NoneText,
                         oracle |-> oracle[call]]]
    /\ calls = [call \in Calls |->
                   [generate_response |-> 0, field_keywords |-> field_keywords]]

CheckInputsOf(call) ==
    pc[call] = "parse_invoice" /\ Store(call, CheckedInputs(Load(call)))

ExtractTextOf(call) ==
    pc[call] = "extract"
        /\ Store(call, ExtractedText(Load(call), extract_text_from_pdf(data[call])))

QueryOracleOf(call) ==
    pc[call] = "generate" /\ Store(call, Queried(Load(call), strings[call].oracle))

ParseResponseOf(call) ==
    pc[call] = "parse"
        /\ Store(call, ParsedResponse(Load(call),
                                      parse_llm_response(strings[call].llm_response.s)))

FilterDataOf(call) ==
    pc[call] = "filter" /\ Store(call, FilteredData(Load(call)))

PostProcessOf(call) ==
    pc[call] = "post_process" /\ Store(call, PostProcessed(Load(call)))

ValidateDataOf(call) ==
    pc[call] = "validate" /\ Store(call, ValidatedData(Load(call)))

NextConcurrent ==
    \E call \in Calls :
        \/ CheckInputsOf(call)
        \/ ExtractTextOf(call)
        \/ QueryOracleOf(call)
        \/ ParseResponseOf(call)
        \/ FilterDataOf(call)
        \/ PostProcessOf(call)
        \/ ValidateDataOf(call)

SpecConcurrent == InitConcurrent /\ [][NextConcurrent]_vars

\* C28: two parse_invoice calls whose steps interleave in any way each
\* return the envelope they return when run alone on the same file, request
\* and oracle answer, and no step changes the keyword taxonomy of a parser.
C28_CallsDoNotInterfere ==
    \A call \in Calls :
        /\ calls[call].field_keywords = field_keywords
        /\ pc[call] = "returned" =>
              result[call] = RunAlone(Frame(data[call], request[call], strings[call].oracle))

\* both calls returned with success, each with the data of its own request
\* and oracle answer
C28_Witness ==
    /\ \A call \in Calls : pc[call] = "returned" /\ result[call].success
    /\ result[1].data # result[2].data

====
